---- MODULE Spec2Model ----
(***************************************************************************)
(* Model of the document-review application (app.py and main.py): the      *)
(* documentation fetcher with its process-wide cache, the phase-1 agents,  *)
(* the editorial synthesis, the orchestrator, the store and the handlers   *)
(* of the user's actions.                                                  *)
(***************************************************************************)
EXTENDS Integers, Sequences, FiniteSets, TLC

VARIABLES
    entry,          \* the entry point that runs: "app" (app.py) or "main" (main.py)
    client,         \* TRUE when OPENAI_API_KEY is set (the OpenAI client exists)
    now,            \* the wall clock, in seconds (datetime.now().timestamp())
    DOCS_CACHE,     \* the process-wide cache: doc_key -> [content, timestamp]
    remote,         \* what a GET at the documentation source ends with while the application runs
    lastFetch,      \* the last call of fetch_documentation: key, clock read, result, GETs issued
    doc_title,      \* the Title text input
    doc_type,       \* the Type select box
    document_text,  \* the document text area
    session_state,  \* st.session_state: a dict, its keys are the DOMAIN
    db,             \* the rows of the table editorial_reviews, in insertion order
    pc,             \* where the script stands: idle between two user actions, or inside a handler
    run,            \* the handler in progress, or the last one when idle
    llm_requests    \* the agents that called client.chat.completions.create in that handler, in order

fetchVars == <<now, DOCS_CACHE, lastFetch>>

appVars == <<entry, client, remote, doc_title, doc_type, document_text, session_state,
             db, pc, run, llm_requests>>

vars == <<entry, client, remote, now, DOCS_CACHE, lastFetch, doc_title, doc_type,
          document_text, session_state, db, pc, run, llm_requests>>

(***************************************************************************)
(* Configuration                                                           *)
(***************************************************************************)

CACHE_EXPIRY == 3600

\* The keys of DOCUMENTATION_URLS.
DOCUMENTATION_URLS ==
    {"content_classification_guide", "style_guide", "wordiness_examples",
     "clarity_examples", "quick_reference"}

\* Python's None.
None == "None"

(***************************************************************************)
(* Bounds of the model                                                     *)
(***************************************************************************)

\* The clock stops advancing past this value.
MaxNow == 3601

\* The amounts by which the clock is seen to advance between two steps: about
\* half of CACHE_EXPIRY, so that ages just below, at and just above
\* CACHE_EXPIRY all occur.
ClockSteps == {1799, 1800, 1801}

\* A key that DOCUMENTATION_URLS does not hold.
UnknownKey == "release_notes"

\* The keys fetch_documentation is called with.
CallKeys == {"content_classification_guide", "style_guide", UnknownKey}

\* The bodies the remote source answers a successful GET with.
Contents == {"docA", "docB"}

\* What a GET can end with: a body (2xx), or a requests.RequestException
\* (network error, non-2xx status through raise_for_status, timeout).
Responses == Contents \cup {"RequestException"}

\* What a GET is seen to end with while the application runs: the source is
\* up, or it is down, for the whole of a session.
AppResponses == {"docA", "RequestException"}

(***************************************************************************)
(* fetch_documentation                                                     *)
(***************************************************************************)

CacheValidLate(cache, k, t) ==
    /\ k \in DOMAIN cache
    /\ t - cache[k].timestamp <= CACHE_EXPIRY

\* The test of the cache: the key is present and its entry is younger than
\* CACHE_EXPIRY.
CacheValid(cache, k, t) ==
    /\ k \in DOMAIN cache
    /\ t - cache[k].timestamp < CACHE_EXPIRY

CachePutKeepsFirstTime(cache, k, content, t) ==
    [x \in (DOMAIN cache) \cup {k} |->
        IF x = k
        THEN [content |-> content,
              timestamp |-> IF k \in DOMAIN cache THEN cache[k].timestamp ELSE t]
        ELSE cache[x]]

\* DOCS_CACHE[doc_key] = {"content": content, "timestamp": now}
CachePut(cache, k, content, t) ==
    [x \in (DOMAIN cache) \cup {k} |->
        IF x = k THEN [content |-> content, timestamp |-> t] ELSE cache[x]]

CacheHitTouches(cache, k, t) ==
    [ret |-> cache[k].content, gets |-> 0, response |-> None,
     cache |-> CachePut(cache, k, cache[k].content, t)]

\* The cached branch: return cache_entry["content"].
CacheHit(cache, k, t) ==
    [ret |-> cache[k].content, gets |-> 0, response |-> None, cache |-> cache]

FetchFailedServesStale(cache, k, resp) ==
    [ret |-> IF k \in DOMAIN cache THEN cache[k].content ELSE None,
     gets |-> 1, response |-> resp, cache |-> cache]

\* The except branch: the GET raised, the call returns None.
FetchFailed(cache, k, resp) ==
    [ret |-> None, gets |-> 1, response |-> resp, cache |-> cache]

FetchOutcomeWithoutUrlTest(cache, k, t, resp) ==
    IF CacheValid(cache, k, t)
    THEN CacheHit(cache, k, t)
    ELSE IF resp = "RequestException"
    THEN FetchFailed(cache, k, resp)
    ELSE [ret |-> resp, gets |-> 1, response |-> resp,
          cache |-> CachePut(cache, k, resp, t)]

\* One call of fetch_documentation(k) at clock value t with the cache as
\* given; resp is what the GET ends with when the call issues one.  The
\* result: the value returned, the number of GETs issued, what the GET ended
\* with (None when there was none), the cache left.
FetchOutcome(cache, k, t, resp) ==
    IF CacheValid(cache, k, t)
    THEN CacheHit(cache, k, t)
    ELSE IF k \notin DOCUMENTATION_URLS
    THEN [ret |-> None, gets |-> 0, response |-> None, cache |-> cache]
    ELSE IF resp = "RequestException"
    THEN FetchFailed(cache, k, resp)
    ELSE [ret |-> resp, gets |-> 1, response |-> resp,
          cache |-> CachePut(cache, k, resp, t)]

\* The call as a step of the program.
fetch_documentation(k, resp) ==
    LET o == FetchOutcome(DOCS_CACHE, k, now, resp) IN
    /\ DOCS_CACHE' = o.cache
    /\ lastFetch' = [key |-> k, at |-> now, ret |-> o.ret, gets |-> o.gets,
                     response |-> o.response]

NoFetch == [key |-> None, at |-> 0, ret |-> None, gets |-> 0, response |-> None]

(***************************************************************************)
(* Python dicts: a function whose DOMAIN is the set of keys present        *)
(***************************************************************************)

EmptyDict == << >>

DictSet(d, k, v) == [x \in (DOMAIN d) \cup {k} |-> IF x = k THEN v ELSE d[x]]

DictDel(d, ks) == [x \in (DOMAIN d) \ ks |-> d[x]]

\* d.get(k, default)
DictGet(d, k, default) == IF k \in DOMAIN d THEN d[k] ELSE default

\* d[k]: the value under k, or the KeyError raised when k is absent.
DictItem(d, k) == IF k \in DOMAIN d THEN d[k] ELSE "KeyError"

(***************************************************************************)
(* Strings that are searched: a str is the sequence of its characters      *)
(***************************************************************************)

\* What the user is seen to type into the chat input.
ChatInputs == {"Rewrite", "tense?", "Is the content ok"}

\* The characters of a str.
Chars(text) ==
    CASE text = "Rewrite" ->
            <<"R", "e", "w", "r", "i", "t", "e">>
      [] text = "tense?" ->
            <<"t", "e", "n", "s", "e", "?">>
      [] text = "Is the content ok" ->
            <<"I", "s", " ", "t", "h", "e", " ", "c", "o", "n", "t", "e",
              "n", "t", " ", "o", "k">>
      [] text = "" ->
            << >>
      [] text = "Intro text." ->
            <<"I", "n", "t", "r", "o", " ", "t", "e", "x", "t", ".">>
      [] text = "See https://example.com/missing" ->
            <<"S", "e", "e", " ", "h", "t", "t", "p", "s", ":", "/", "/",
              "e", "x", "a", "m", "p", "l", "e", ".", "c", "o", "m", "/",
              "m", "i", "s", "s", "i", "n", "g">>
      [] text = "(https://github.com/o/r/blob/master/a.md)" ->
            <<"(", "h", "t", "t", "p", "s", ":", "/", "/", "g", "i", "t",
              "h", "u", "b", ".", "c", "o", "m", "/", "o", "/", "r", "/",
              "b", "l", "o", "b", "/", "m", "a", "s", "t", "e", "r", "/",
              "a", ".", "m", "d", ")">>
      [] text = "https://docs.github.com/en" ->
            <<"h", "t", "t", "p", "s", ":", "/", "/", "d", "o", "c", "s",
              ".", "g", "i", "t", "h", "u", "b", ".", "c", "o", "m", "/",
              "e", "n">>
      [] text = "https://docs.example.com/v1/a" ->
            <<"h", "t", "t", "p", "s", ":", "/", "/", "d", "o", "c", "s",
              ".", "e", "x", "a", "m", "p", "l", "e", ".", "c", "o", "m",
              "/", "v", "1", "/", "a">>
      [] text = "http://example.com/api/users" ->
            <<"h", "t", "t", "p", ":", "/", "/", "e", "x", "a", "m", "p",
              "l", "e", ".", "c", "o", "m", "/", "a", "p", "i", "/", "u",
              "s", "e", "r", "s">>
      [] text = "https://a.io/x https://a.io/x" ->
            <<"h", "t", "t", "p", "s", ":", "/", "/", "a", ".", "i", "o",
              "/", "x", " ", "h", "t", "t", "p", "s", ":", "/", "/", "a",
              ".", "i", "o", "/", "x">>
      [] text = "https://a.io/x http://b.io/y" ->
            <<"h", "t", "t", "p", "s", ":", "/", "/", "a", ".", "i", "o",
              "/", "x", " ", "h", "t", "t", "p", ":", "/", "/", "b", ".",
              "i", "o", "/", "y">>
      [] text = "timed out" ->
            <<"t", "i", "m", "e", "d", " ", "o", "u", "t">>
      [] text = "<urlopen error [Errno -2] Name or service not known>" ->
            <<"<", "u", "r", "l", "o", "p", "e", "n", " ", "e", "r", "r",
              "o", "r", " ", "[", "E", "r", "r", "n", "o", " ", "-", "2",
              "]", " ", "N", "a", "m", "e", " ", "o", "r", " ", "s", "e",
              "r", "v", "i", "c", "e", " ", "n", "o", "t", " ", "k", "n",
              "o", "w", "n", ">">>
      [] text = "<urlopen error [SSL: CERTIFICATE_VERIFY_FAILED] certificate verify failed>" ->
            <<"<", "u", "r", "l", "o", "p", "e", "n", " ", "e", "r", "r",
              "o", "r", " ", "[", "S", "S", "L", ":", " ", "C", "E", "R",
              "T", "I", "F", "I", "C", "A", "T", "E", "_", "V", "E", "R",
              "I", "F", "Y", "_", "F", "A", "I", "L", "E", "D", "]", " ",
              "c", "e", "r", "t", "i", "f", "i", "c", "a", "t", "e", " ",
              "v", "e", "r", "i", "f", "y", " ", "f", "a", "i", "l", "e",
              "d", ">">>
      [] text = "<urlopen error [Errno 111] Connection refused>" ->
            <<"<", "u", "r", "l", "o", "p", "e", "n", " ", "e", "r", "r",
              "o", "r", " ", "[", "E", "r", "r", "n", "o", " ", "1", "1",
              "1", "]", " ", "C", "o", "n", "n", "e", "c", "t", "i", "o",
              "n", " ", "r", "e", "f", "u", "s", "e", "d", ">">>
      [] text = "SSL" ->
            <<"S", "S", "L">>
      [] text = "certificate" ->
            <<"c", "e", "r", "t", "i", "f", "i", "c", "a", "t", "e">>
      [] text = "Name or service not known" ->
            <<"N", "a", "m", "e", " ", "o", "r", " ", "s", "e", "r", "v",
              "i", "c", "e", " ", "n", "o", "t", " ", "k", "n", "o", "w",
              "n">>
      [] text = "DNS" ->
            <<"D", "N", "S">>
      [] text = "Connection refused" ->
            <<"C", "o", "n", "n", "e", "c", "t", "i", "o", "n", " ", "r",
              "e", "f", "u", "s", "e", "d">>
      [] text = "github.com" ->
            <<"g", "i", "t", "h", "u", "b", ".", "c", "o", "m">>
      [] text = "/blob/" ->
            <<"/", "b", "l", "o", "b", "/">>
      [] text = "docs." ->
            <<"d", "o", "c", "s", ".">>
      [] text = "documentation." ->
            <<"d", "o", "c", "u", "m", "e", "n", "t", "a", "t", "i", "o",
              "n", ".">>
      [] text = "wiki." ->
            <<"w", "i", "k", "i", ".">>
      [] text = "/api/" ->
            <<"/", "a", "p", "i", "/">>
      [] text = "/v1/" ->
            <<"/", "v", "1", "/">>
      [] text = "/v2/" ->
            <<"/", "v", "2", "/">>
      [] text = "/rest/" ->
            <<"/", "r", "e", "s", "t", "/">>
      [] text = "://" ->
            <<":", "/", "/">>
      [] text = "Use http:// or https://)" ->
            <<"U", "s", "e", " ", "h", "t", "t", "p", ":", "/", "/", " ",
              "o", "r", " ", "h", "t", "t", "p", "s", ":", "/", "/", ")">>
      [] text = "should be" ->
            <<"s", "h", "o", "u", "l", "d", " ", "b", "e">>
      [] text = "can be" ->
            <<"c", "a", "n", " ", "b", "e">>
      [] text = "will be" ->
            <<"w", "i", "l", "l", " ", "b", "e">>
      [] text = "will" ->
            <<"w", "i", "l", "l">>
      [] text = "actually" ->
            <<"a", "c", "t", "u", "a", "l", "l", "y">>
      [] text = "basically" ->
            <<"b", "a", "s", "i", "c", "a", "l", "l", "y">>
      [] text = "really" ->
            <<"r", "e", "a", "l", "l", "y">>
      [] text = "very" ->
            <<"v", "e", "r", "y">>
      [] text = "the button" ->
            <<"t", "h", "e", " ", "b", "u", "t", "t", "o", "n">>
      [] text = "the link" ->
            <<"t", "h", "e", " ", "l", "i", "n", "k">>
      [] text = "the field" ->
            <<"t", "h", "e", " ", "f", "i", "e", "l", "d">>
      [] text = "Very " ->
            <<"V", "e", "r", "y", " ">>
      [] text = "every " ->
            <<"e", "v", "e", "r", "y", " ">>
      [] text = "actually, " ->
            <<"a", "c", "t", "u", "a", "l", "l", "y", ",", " ">>
      [] text = "Really" ->
            <<"R", "e", "a", "l", "l", "y">>
      [] text = ". " ->
            <<".", " ">>
      [] text = "?! " ->
            <<"?", "!", " ">>
      [] text = "w w w w w w w w w w w w w w w w w w w w w w w w w w " ->
            <<"w", " ", "w", " ", "w", " ", "w", " ", "w", " ", "w", " ",
              "w", " ", "w", " ", "w", " ", "w", " ", "w", " ", "w", " ",
              "w", " ", "w", " ", "w", " ", "w", " ", "w", " ", "w", " ",
              "w", " ", "w", " ", "w", " ", "w", " ", "w", " ", "w", " ",
              "w", " ", "w", " ">>
      [] text = "w w w w w w w w w w w w w w w w w w w w w w w w w " ->
            <<"w", " ", "w", " ", "w", " ", "w", " ", "w", " ", "w", " ",
              "w", " ", "w", " ", "w", " ", "w", " ", "w", " ", "w", " ",
              "w", " ", "w", " ", "w", " ", "w", " ", "w", " ", "w", " ",
              "w", " ", "w", " ", "w", " ", "w", " ", "w", " ", "w", " ",
              "w", " ">>
      [] text = "will be saved with the button " ->
            <<"w", "i", "l", "l", " ", "b", "e", " ", "s", "a", "v", "e",
              "d", " ", "w", "i", "t", "h", " ", "t", "h", "e", " ", "b",
              "u", "t", "t", "o", "n", " ">>
      [] text = "every actually, " ->
            <<"e", "v", "e", "r", "y", " ", "a", "c", "t", "u", "a", "l",
              "l", "y", ",", " ">>
      [] text = "Really. " ->
            <<"R", "e", "a", "l", "l", "y", ".", " ">>

\* str.lower(), on ASCII letters.
UpperCase ==
    <<"A", "B", "C", "D", "E", "F", "G", "H", "I", "J", "K", "L", "M",
      "N", "O", "P", "Q", "R", "S", "T", "U", "V", "W", "X", "Y", "Z">>

LowerCase ==
    <<"a", "b", "c", "d", "e", "f", "g", "h", "i", "j", "k", "l", "m",
      "n", "o", "p", "q", "r", "s", "t", "u", "v", "w", "x", "y", "z">>

UpperLetters == {UpperCase[i] : i \in 1..26}

LowerChar(c) ==
    IF c \in UpperLetters
    THEN LowerCase[CHOOSE i \in 1..26 : UpperCase[i] = c]
    ELSE c

Lower(cs) == [i \in 1..Len(cs) |-> LowerChar(cs[i])]

\* keyword in text
Contains(cs, kw) ==
    \E i \in 0..(Len(cs) - Len(kw)) :
        \A j \in 1..Len(kw) : cs[i + j] = kw[j]

\* s[i:].startswith(kw)
StartsAt(cs, i, kw) ==
    /\ i + Len(kw) - 1 <= Len(cs)
    /\ \A j \in 1..Len(kw) : cs[i + j - 1] = kw[j]

\* The least index from i on whose character is in the set; Len + 1 when
\* there is none.
FirstOf(cs, i, set) ==
    IF \E x \in i..Len(cs) : cs[x] \in set
    THEN CHOOSE x \in i..Len(cs) :
            /\ cs[x] \in set
            /\ \A y \in i..(x - 1) : cs[y] \notin set
    ELSE Len(cs) + 1

\* The characters the class [^\s\)\]\}">] of url_pattern leaves out.
UrlStop == {" ", "\t", "\n", "\r", "\f", ")", "]", "}", "\"", ">"}

\* The length of https?:// matched at i, 0 when it does not match there.
SchemeAt(cs, i) ==
    IF StartsAt(cs, i, <<"h", "t", "t", "p", "s", ":", "/", "/">>) THEN 8
    ELSE IF StartsAt(cs, i, <<"h", "t", "t", "p", ":", "/", "/">>) THEN 7
    ELSE 0

RECURSIVE FindUrlsEmptyTail(_, _)
FindUrlsEmptyTail(cs, i) ==
    IF i > Len(cs) THEN << >>
    ELSE LET n == SchemeAt(cs, i) IN
         IF n > 0
         THEN LET e == FirstOf(cs, i + n, UrlStop) - 1
              IN <<SubSeq(cs, i, e)>> \o FindUrlsEmptyTail(cs, e + 1)
         ELSE FindUrlsEmptyTail(cs, i + 1)

\* re.findall(url_pattern, text) from index i on: the matches from left to
\* right, each as long as the class allows, none overlapping.
RECURSIVE FindUrls(_, _)
FindUrls(cs, i) ==
    IF i > Len(cs) THEN << >>
    ELSE LET n == SchemeAt(cs, i) IN
         IF n > 0 /\ i + n <= Len(cs) /\ cs[i + n] \notin UrlStop
         THEN LET e == FirstOf(cs, i + n, UrlStop) - 1
              IN <<SubSeq(cs, i, e)>> \o FindUrls(cs, e + 1)
         ELSE FindUrls(cs, i + 1)

rewrite_keywords ==
    <<<<"r", "e", "w", "r", "i", "t", "e">>,
      <<"y", "e", "s", ",", " ", "r", "e", "w", "r", "i", "t", "e">>,
      <<"y", "e", "s", " ", "p", "l", "e", "a", "s", "e">>,
      <<"g", "o", " ", "a", "h", "e", "a", "d">>,
      <<"y", "e", "s", ",", " ", "g", "o", " ", "a", "h", "e", "a", "d">>,
      <<"c", "r", "e", "a", "t", "e", " ", "n", "e", "w", " ", "v", "e", "r", "s", "i", "o", "n">>,
      <<"i", "m", "p", "r", "o", "v", "e", " ", "d", "r", "a", "f", "t">>>>

style_words ==
    <<<<"s", "t", "y", "l", "e">>,
      <<"f", "o", "r", "m", "a", "t">>,
      <<"v", "o", "i", "c", "e">>,
      <<"t", "e", "n", "s", "e">>>>

content_words ==
    <<<<"c", "o", "n", "t", "e", "n", "t">>,
      <<"c", "l", "a", "r", "i", "t", "y">>,
      <<"w", "o", "r", "d", "i", "n", "e", "s", "s">>>>

AnyIn(kws, cs) == \E i \in 1..Len(kws) : Contains(cs, kws[i])

\* is_rewrite_request = any(keyword in user_input.lower() for keyword in rewrite_keywords)
IsRewriteRequest(input) == AnyIn(rewrite_keywords, Lower(Chars(input)))

\* docs_to_fetch of handle_chat_question.
ChatDocs(input) ==
    (IF AnyIn(style_words, Lower(Chars(input))) THEN <<"style_guide">> ELSE << >>)
    \o (IF AnyIn(content_words, Lower(Chars(input)))
        THEN <<"content_classification_guide">> ELSE << >>)

(***************************************************************************)
(* The heuristic checkers: analyze_technical_writing_issues (app.py) and   *)
(* quick_analysis (main.py), on the characters of the text                 *)
(***************************************************************************)

\* \s of a pattern, and the separators of str.split().
Space == {" ", "\t", "\n", "\r", "\f"}

Digits == {"0", "1", "2", "3", "4", "5", "6", "7", "8", "9"}

\* \w of a pattern.
WordChars ==
    UpperLetters \cup {LowerCase[i] : i \in 1..26} \cup Digits \cup {"_"}

WordChar(c) == c \in WordChars

\* \b at index i: exactly one of the characters before and at i is a \w.
Boundary(cs, i) ==
    (i - 1 \in 1..Len(cs) /\ WordChar(cs[i - 1]))
    # (i \in 1..Len(cs) /\ WordChar(cs[i]))

\* A literal of a pattern, in lower case, matched at index i under
\* re.IGNORECASE.
MatchesAt(cs, i, literal) ==
    /\ i + Len(literal) - 1 <= Len(cs)
    /\ \A j \in 1..Len(literal) : LowerChar(cs[i + j - 1]) = literal[j]

SearchWordCaseSensitive(cs, phrase) ==
    \E i \in 1..Len(cs) :
        /\ StartsAt(cs, i, phrase)
        /\ Boundary(cs, i)
        /\ Boundary(cs, i + Len(phrase))

\* re.search(rf'\b{phrase}\b', text, re.IGNORECASE)
SearchWord(cs, phrase) ==
    \E i \in 1..Len(cs) :
        /\ MatchesAt(cs, i, phrase)
        /\ Boundary(cs, i)
        /\ Boundary(cs, i + Len(phrase))

\* A run of at least one \s from index i to just before index j.
SpacesBetween(cs, i, j) ==
    /\ i < j
    /\ \A k \in i..(j - 1) : cs[k] \in Space

\* re.search(lead + r'\s+\w+ed', text, re.IGNORECASE)
SearchPassive(cs, lead) ==
    \E i \in 1..Len(cs) :
        /\ MatchesAt(cs, i, lead)
        /\ \E j \in (i + Len(lead) + 1)..Len(cs) :
            /\ SpacesBetween(cs, i + Len(lead), j)
            /\ \E k \in (j + 1)..(Len(cs) - 1) :
                /\ \A x \in j..(k - 1) : WordChar(cs[x])
                /\ MatchesAt(cs, k, <<"e", "d">>)

\* re.search(r'\bwill\s+\w+', text, re.IGNORECASE)
SearchFuture(cs) ==
    \E i \in 1..Len(cs) :
        /\ MatchesAt(cs, i, Chars("will"))
        /\ Boundary(cs, i)
        /\ \E j \in (i + 5)..Len(cs) :
            /\ SpacesBetween(cs, i + 4, j)
            /\ WordChar(cs[j])

passive_leads == <<"should be", "can be", "will be">>

filler_words == <<"actually", "basically", "really", "very">>

vague_phrases == <<"the button", "the link", "the field">>

\* analyze_technical_writing_issues: the issues in the order they are
\* appended; a suggestion is the sequence of its parts.
analyze_technical_writing_issues(cs) ==
    LET passive == SelectSeq(passive_leads,
                             LAMBDA lead : SearchPassive(cs, Chars(lead)))
        found == SelectSeq(filler_words,
                           LAMBDA word : SearchWord(cs, Chars(word)))
    IN [i \in 1..Len(passive) |->
            [type |-> "Passive Voice", priority |-> "High",
             suggestion |-> <<"Use active voice in instructions">>]]
       \o (IF SearchFuture(cs)
           THEN <<[type |-> "Future Tense", priority |-> "Medium",
                   suggestion |-> <<"Use present tense: 'returns' not 'will return'">>]>>
           ELSE << >>)
       \o [i \in 1..Len(found) |->
            [type |-> "Wordiness", priority |-> "High",
             suggestion |-> <<"Remove unnecessary '", found[i], "'">>]]
       \o (IF \E i \in 1..3 : SearchWord(cs, Chars(vague_phrases[i]))
           THEN <<[type |-> "Vague UI Reference", priority |-> "High",
                   suggestion |-> <<"Specify UI elements: 'the Save button' not 'the button'">>]>>
           ELSE << >>)

\* The characters that [.!?] of the pattern of re.split matches.
SentenceEnd == {".", "!", "?"}

\* The least index from i on whose character is not in the set; Len + 1
\* when there is none.
FirstNotOf(cs, i, set) ==
    IF \E x \in i..Len(cs) : cs[x] \notin set
    THEN CHOOSE x \in i..Len(cs) :
            /\ cs[x] \notin set
            /\ \A y \in i..(x - 1) : cs[y] \in set
    ELSE Len(cs) + 1

\* re.split(r'[.!?]+', text)
RECURSIVE SplitSentences(_)
SplitSentences(cs) ==
    LET n == FirstOf(cs, 1, SentenceEnd) IN
    IF n > Len(cs) THEN <<cs>>
    ELSE <<SubSeq(cs, 1, n - 1)>>
         \o SplitSentences(SubSeq(cs, FirstNotOf(cs, n, SentenceEnd), Len(cs)))

\* len(s.split())
WordCount(s) ==
    Cardinality({i \in 1..Len(s) :
                    /\ s[i] \notin Space
                    /\ i = 1 \/ s[i - 1] \in Space})

\* The number of words a sentence may have without being counted as long.
LongSentenceWords == 25

\* quick_analysis: the issues in the order they are appended, each as its
\* category and what the text of the issue is formatted from.
quick_analysis(cs) ==
    LET found_fillers == SelectSeq(filler_words,
                                   LAMBDA word : SearchWord(cs, Chars(word)))
        sentences == SplitSentences(cs)
        long_sentences == SelectSeq(sentences,
                                    LAMBDA s : WordCount(s) > LongSentenceWords)
    IN (IF \E i \in 1..3 : SearchPassive(cs, Chars(passive_leads[i]))
        THEN <<[category |-> "Passive Voice"]>> ELSE << >>)
       \o (IF SearchFuture(cs)
           THEN <<[category |-> "Future Tense"]>> ELSE << >>)
       \o (IF Len(found_fillers) > 0
           THEN <<[category |-> "Wordiness", words |-> found_fillers]>>
           ELSE << >>)
       \o (IF \E i \in 1..3 : SearchWord(cs, Chars(vague_phrases[i]))
           THEN <<[category |-> "Vague Reference"]>> ELSE << >>)
       \o (IF Len(long_sentences) > 0
           THEN <<[category |-> "Long Sentences", count |-> Len(long_sentences)]>>
           ELSE << >>)

(***************************************************************************)
(* The form, the language model and the store                              *)
(***************************************************************************)

\* The options of the Type select box.
DocTypeList(e) ==
    IF e = "app"
    THEN <<"API Docs", "User Guide", "Tutorial", "Installation",
           "Troubleshooting", "Reference", "Getting Started", "Other">>
    ELSE <<"API Documentation", "User Guide", "Tutorial", "Installation Guide",
           "Troubleshooting", "Reference Manual", "Getting Started", "Other">>

\* The options the user is seen to choose.
InputTypes(e) == {DocTypeList(e)[1], DocTypeList(e)[2]}

\* The titles and the documents the user is seen to enter.
Titles == {"", "Guide"}

Texts == {"", "Intro text.", "See https://example.com/missing"}

\* urls = re.findall(url_pattern, document_text)
DocUrls(text) == FindUrls(Chars(text), 1)

\* The text the language model is seen to answer the synthesis with.
ReviewTexts == {"editorial review"}

\* What client.chat.completions.create ends with: a completion, or an
\* exception (network failure, API error, rate limit).
Completion(agent) ==
    CASE agent = "Content Analyzer" -> {"content analysis"}
      [] agent = "Style Guide Enforcer" -> {"compliance check"}
      [] agent = "Senior Editor" -> ReviewTexts
      [] agent = "Technical Writer" -> {"improved draft"}
      [] agent = "Chat Assistant" -> {"guidance"}

ApiError == "APIError"

LlmOutcomes(agent) == Completion(agent) \cup {ApiError}

\* The rows the table is seen to grow to.
MaxRows == 1

\* The messages the session is seen to hold before a handler adds its own.
MaxMessages == 2

\* A str value, where the code passes a str or a dict.
Str(v) == [str |-> v]

IsStr(v) == DOMAIN v = {"str"}

\* sqlite3 binds str parameters; a dict parameter raises.
Bindable(v) == IsStr(v)

SaveRaises(rows, accepts, t, doc_type_, doc_title_, original_text, review_notes, status) ==
    IF accepts /\ Bindable(review_notes)
    THEN [ret |-> TRUE, raised |-> FALSE,
          rows |-> Append(rows, [timestamp |-> t, document_type |-> doc_type_,
                                 document_title |-> doc_title_,
                                 original_text |-> original_text,
                                 review_notes |-> review_notes.str,
                                 review_status |-> status])]
    ELSE [ret |-> FALSE, raised |-> TRUE, rows |-> rows]

\* save_editorial_review (app.py) and save_review (main.py): one INSERT,
\* committed; any exception is caught and False is returned.  accepts says
\* whether the store takes the write.
Save(rows, accepts, t, doc_type_, doc_title_, original_text, review_notes, status) ==
    IF accepts /\ Bindable(review_notes)
    THEN [ret |-> TRUE, raised |-> FALSE,
          rows |-> Append(rows, [timestamp |-> t, document_type |-> doc_type_,
                                 document_title |-> doc_title_,
                                 original_text |-> original_text,
                                 review_notes |-> review_notes.str,
                                 review_status |-> status])]
    ELSE [ret |-> FALSE, raised |-> FALSE, rows |-> rows]

\* The orders of the rows in which no row comes before a row with a later
\* timestamp: ORDER BY timestamp DESC, which leaves the order of rows with
\* equal timestamps open.
ByTimestampDesc(rows) ==
    {[i \in 1..Len(rows) |-> rows[f[i]]] :
        f \in {g \in [1..Len(rows) -> 1..Len(rows)] :
                 /\ \A i, j \in 1..Len(rows) : i # j => g[i] # g[j]
                 /\ \A i, j \in 1..Len(rows) :
                        i < j => rows[g[i]].timestamp >= rows[g[j]].timestamp}}

get_reviews_Newest(rows, readable) ==
    IF readable
    THEN {IF Len(frame) = 0 THEN frame ELSE <<frame[1]>> :
            frame \in ByTimestampDesc(rows)}
    ELSE {<< >>}

\* get_editorial_reviews (app.py) and get_reviews (main.py): the frames the
\* SELECT can give; any exception is caught and an empty frame is returned.
\* readable says whether the store answers the read.
get_reviews(rows, readable) ==
    IF readable THEN ByTimestampDesc(rows) ELSE {<< >>}

\* The default of the column review_status, which the INSERT of main.py
\* leaves out; app.py passes status="in_progress".
DefaultStatus(e) == IF e = "app" THEN "in_progress" ELSE "completed"

(***************************************************************************)
(* The agents                                                              *)
(***************************************************************************)

\* The tasks run_multi_agent_review hands to asyncio.gather, in order.
Phase1Agents(e) ==
    IF e = "app"
    THEN <<"Content Analyzer", "Style Guide Enforcer">>
    ELSE <<"Content Analyzer", "Style Guide Enforcer", "Link Validator">>

\* The reference documents an agent fetches before its request, in order.
AgentDocs(e, agent) ==
    CASE agent = "Content Analyzer" ->
            IF e = "app" THEN <<"content_classification_guide">>
            ELSE <<"content_classification_guide", "wordiness_examples",
                   "clarity_examples">>
      [] agent = "Style Guide Enforcer" ->
            IF e = "app" THEN <<"style_guide">>
            ELSE <<"style_guide", "quick_reference">>
      [] agent = "Technical Writer" ->
            <<"style_guide", "content_classification_guide">>
      [] OTHER -> << >>

AgentReportKeepsFindings(agent, outcome) ==
    IF outcome = ApiError
    THEN [agent |-> agent, findings |-> "", error |-> outcome]
    ELSE [agent |-> agent, findings |-> outcome]

\* The report of a phase-1 language-model agent: findings, or the error.
AgentReport(agent, outcome) ==
    IF outcome = ApiError
    THEN [agent |-> agent, error |-> outcome]
    ELSE [agent |-> agent, findings |-> outcome]

\* What urlopen on a link ends with: a response with its status (urlopen
\* follows redirects and hands back 2xx only), an HTTPError with its code,
\* or another exception with its message.
Response(code) == [kind |-> "response", code |-> code, msg |-> ""]

HttpError(code) == [kind |-> "HTTPError", code |-> code, msg |-> ""]

Raised(msg) == [kind |-> "exception", code |-> 0, msg |-> msg]

\* The outcomes seen while the application runs.
LinkOutcomes == {Response(200), HttpError(404)}

\* The outcomes seen when the validator is looked at on its own.
ErrorMessages ==
    {"timed out",
     "<urlopen error [Errno -2] Name or service not known>",
     "<urlopen error [SSL: CERTIFICATE_VERIFY_FAILED] certificate verify failed>",
     "<urlopen error [Errno 111] Connection refused>"}

UrlOutcomes ==
    {Response(200), Response(204), HttpError(404), HttpError(401),
     HttpError(403), HttpError(500)} \cup {Raised(m) : m \in ErrorMessages}

\* s[:n]
Take(cs, n) == SubSeq(cs, 1, IF Len(cs) < n THEN Len(cs) ELSE n)

\* The greatest index whose character is in the set; 0 when there is none.
LastOf(cs, set) ==
    IF \E x \in 1..Len(cs) : cs[x] \in set
    THEN CHOOSE x \in 1..Len(cs) :
            /\ cs[x] \in set
            /\ \A y \in (x + 1)..Len(cs) : cs[y] \notin set
    ELSE 0

\* urlparse(url) of a url that url_pattern matched: the scheme up to the
\* colon, the netloc up to the first of / ? #, and the path up to the first
\* of ? #, less the parameters (from a ; in its last segment on).
urlparse(url) ==
    LET colon == FirstOf(url, 1, {":"})
        host == colon + 3
        slash == FirstOf(url, host, {"/", "?", "#"})
        stop == FirstOf(url, slash, {"?", "#"})
        full == SubSeq(url, slash, stop - 1)
        semi == FirstOf(full, LastOf(full, {"/"}) + 1, {";"})
    IN [scheme |-> SubSeq(url, 1, colon - 1),
        netloc |-> SubSeq(url, host, slash - 1),
        path |-> SubSeq(full, 1, semi - 1)]

\* A line of a suggestion: the advice, and the text put into it.
Line(advice, arg) == [advice |-> advice, arg |-> arg]

\* "suggestion": None.  The code tests the value for truth only; None is the
\* suggestion with no line.
NoSuggestion == << >>

suggest_404_fixes_Flat(url) ==
    LET parsed == urlparse(url)
        domain == parsed.netloc
        path == parsed.path
        specific ==
            IF Contains(domain, Chars("github.com")) /\ Contains(path, Chars("/blob/"))
            THEN <<Line("Repository may have moved - check if it was renamed or transferred", << >>),
                   Line("Branch may have changed (master -> main)", << >>),
                   Line("Try archive: https://web.archive.org/web/", url)>>
            ELSE IF \E doc_site \in {"docs.", "documentation.", "wiki."} :
                        Contains(domain, Chars(doc_site))
            THEN <<Line("Documentation may have been restructured - check site's search", << >>),
                   Line("Try removing version numbers from URL path", << >>)>>
            ELSE IF \/ Contains(path, Chars("/api/"))
                    \/ \E api_term \in {"/v1/", "/v2/", "/rest/"} :
                        Contains(path, Chars(api_term))
            THEN <<Line("API version may have changed - check for newer versions", << >>),
                   Line("Endpoint may have been deprecated - check API changelog", << >>)>>
            ELSE << >>
    IN specific
       \o <<Line("Check site manually: ", parsed.scheme \o Chars("://") \o domain),
            Line("Search archive: https://web.archive.org/web/", url)>>

\* suggest_404_fixes: the lines, in the order they are joined.
suggest_404_fixes(url) ==
    LET parsed == urlparse(url)
        domain == parsed.netloc
        path == parsed.path
        specific ==
            IF Contains(domain, Chars("github.com"))
            THEN (IF Contains(path, Chars("/blob/"))
                  THEN <<Line("Repository may have moved - check if it was renamed or transferred", << >>),
                         Line("Branch may have changed (master -> main)", << >>)>>
                  ELSE << >>)
                 \o <<Line("Try archive: https://web.archive.org/web/", url)>>
            ELSE IF \E doc_site \in {"docs.", "documentation.", "wiki."} :
                        Contains(domain, Chars(doc_site))
            THEN <<Line("Documentation may have been restructured - check site's search", << >>),
                   Line("Try removing version numbers from URL path", << >>)>>
            ELSE IF \/ Contains(path, Chars("/api/"))
                    \/ \E api_term \in {"/v1/", "/v2/", "/rest/"} :
                        Contains(path, Chars(api_term))
            THEN <<Line("API version may have changed - check for newer versions", << >>),
                   Line("Endpoint may have been deprecated - check API changelog", << >>)>>
            ELSE << >>
    IN specific
       \o <<Line("Check site manually: ", parsed.scheme \o Chars("://") \o domain),
            Line("Search archive: https://web.archive.org/web/", url)>>

\* suggest_error_fixes, on the characters of the message.
suggest_error_fixes(url, error_msg) ==
    IF \/ Contains(error_msg, Chars("SSL"))
       \/ Contains(Lower(error_msg), Chars("certificate"))
    THEN "SSL certificate issue - site may be misconfigured or unsafe"
    ELSE IF \/ Contains(error_msg, Chars("Name or service not known"))
            \/ Contains(error_msg, Chars("DNS"))
    THEN "Domain no longer exists - find alternative or remove link"
    ELSE IF Contains(error_msg, Chars("Connection refused"))
    THEN "Server is down - check if this is temporary or permanent"
    ELSE "Network error - verify URL is correct"

\* The sign a status starts with: the check mark, the warning sign, the
\* cross and the lock.
CheckMark == "(check)"

WarnMark == "(warning)"

CrossMark == "(cross)"

LockMark == "(lock)"

check_single_link_ForbiddenAsError(url, o) ==
    IF o.kind = "response"
    THEN IF o.code = 200
         THEN [url |-> url, status |-> <<CheckMark, " Working">>,
               code |-> o.code, suggestion |-> NoSuggestion]
         ELSE [url |-> url, status |-> <<WarnMark, " HTTP ", ToString(o.code)>>,
               code |-> o.code,
               suggestion |-> <<Line("Check if this is the intended behavior", << >>)>>]
    ELSE IF o.kind = "HTTPError"
    THEN IF o.code = 404
         THEN [url |-> url, status |-> <<CrossMark, " Not Found (404)">>,
               code |-> 404, suggestion |-> suggest_404_fixes(url)]
         ELSE IF o.code = 401
         THEN [url |-> url,
               status |-> <<LockMark, " Access Restricted (", ToString(o.code), ")">>,
               code |-> o.code,
               suggestion |-> <<Line("Verify if authentication is required or if link should be public", << >>)>>]
         ELSE [url |-> url, status |-> <<CrossMark, " HTTP ", ToString(o.code)>>,
               code |-> o.code,
               suggestion |-> <<Line("Check server status or find alternative", << >>)>>]
    ELSE [url |-> url,
          status |-> <<CrossMark, " Error: ">> \o Take(Chars(o.msg), 50),
          code |-> "ERROR",
          suggestion |-> <<Line(suggest_error_fixes(url, Chars(o.msg)), << >>)>>]

\* check_single_link: the result for a url whose urlopen ended with o.  A
\* status is the sequence of its parts, the sign first.
check_single_link(url, o) ==
    IF o.kind = "response"
    THEN IF o.code = 200
         THEN [url |-> url, status |-> <<CheckMark, " Working">>,
               code |-> o.code, suggestion |-> NoSuggestion]
         ELSE [url |-> url, status |-> <<WarnMark, " HTTP ", ToString(o.code)>>,
               code |-> o.code,
               suggestion |-> <<Line("Check if this is the intended behavior", << >>)>>]
    ELSE IF o.kind = "HTTPError"
    THEN IF o.code = 404
         THEN [url |-> url, status |-> <<CrossMark, " Not Found (404)">>,
               code |-> 404, suggestion |-> suggest_404_fixes(url)]
         ELSE IF o.code \in {401, 403}
         THEN [url |-> url,
               status |-> <<LockMark, " Access Restricted (", ToString(o.code), ")">>,
               code |-> o.code,
               suggestion |-> <<Line("Verify if authentication is required or if link should be public", << >>)>>]
         ELSE [url |-> url, status |-> <<CrossMark, " HTTP ", ToString(o.code)>>,
               code |-> o.code,
               suggestion |-> <<Line("Check server status or find alternative", << >>)>>]
    ELSE [url |-> url,
          status |-> <<CrossMark, " Error: ">> \o Take(Chars(o.msg), 50),
          code |-> "ERROR",
          suggestion |-> <<Line(suggest_error_fixes(url, Chars(o.msg)), << >>)>>]

\* result["status"].startswith(the check mark)
IsWorking(result) == result.status[1] = CheckMark

\* The findings of the report, as the parts the code appends in order.
LinkFindings(urls, working_links, issues) ==
    <<[part |-> "Link Validation Report", count |-> Len(urls)]>>
    \o (IF Len(working_links) > 0
        THEN <<[part |-> "working links", count |-> Len(working_links)]>>
        ELSE << >>)
    \o (IF Len(issues) > 0
        THEN <<[part |-> "links need attention", count |-> Len(issues)]>>
             \o [i \in 1..Len(issues) |->
                    [part |-> "issue", status |-> issues[i].status,
                     url |-> issues[i].url, suggestion |-> issues[i].suggestion]]
        ELSE << >>)
    \o (IF Len(issues) = 0
        THEN <<[part |-> "All links are working perfectly!"]>>
        ELSE << >>)

run_link_validation_DropsWarned(text, outcomes) ==
    LET urls == DocUrls(text) IN
    IF Len(urls) = 0
    THEN [report |-> [agent |-> "Link Validator",
                      findings |-> <<[part |-> "No external links found"]>>],
          working_links |-> << >>, issues |-> << >>, opened |-> << >>]
    ELSE LET results == [i \in 1..Len(urls) |->
                            check_single_link(urls[i], outcomes[i])]
             working_links == SelectSeq(results, IsWorking)
             issues == SelectSeq(results, LAMBDA r : r.status[1] \in {CrossMark, LockMark})
         IN [report |-> [agent |-> "Link Validator",
                         findings |-> LinkFindings(urls, working_links, issues)],
             working_links |-> working_links, issues |-> issues,
             opened |-> urls]

run_link_validation_StopsAtError(text, outcomes) ==
    LET urls == DocUrls(text) IN
    IF Len(urls) = 0
    THEN [report |-> [agent |-> "Link Validator",
                      findings |-> <<[part |-> "No external links found"]>>],
          working_links |-> << >>, issues |-> << >>, opened |-> << >>]
    ELSE IF \E i \in 1..Len(urls) : outcomes[i].kind = "exception"
    THEN LET first == CHOOSE i \in 1..Len(urls) :
                        /\ outcomes[i].kind = "exception"
                        /\ \A j \in 1..(i - 1) : outcomes[j].kind # "exception"
         IN [report |-> [agent |-> "Link Validator",
                         error |-> "Link validation failed"],
             working_links |-> << >>, issues |-> << >>,
             opened |-> SubSeq(urls, 1, first)]
    ELSE LET results == [i \in 1..Len(urls) |->
                            check_single_link(urls[i], outcomes[i])]
             working_links == SelectSeq(results, IsWorking)
             issues == SelectSeq(results, LAMBDA r : ~IsWorking(r))
         IN [report |-> [agent |-> "Link Validator",
                         findings |-> LinkFindings(urls, working_links, issues)],
             working_links |-> working_links, issues |-> issues,
             opened |-> urls]

\* run_link_validation on a document whose links' urlopen end with the
\* outcomes given, in order: the report, the two lists, and the urls that
\* urlopen was called with.
run_link_validation(text, outcomes) ==
    LET urls == DocUrls(text) IN
    IF Len(urls) = 0
    THEN [report |-> [agent |-> "Link Validator",
                      findings |-> <<[part |-> "No external links found"]>>],
          working_links |-> << >>, issues |-> << >>, opened |-> << >>]
    ELSE LET results == [i \in 1..Len(urls) |->
                            check_single_link(urls[i], outcomes[i])]
             working_links == SelectSeq(results, IsWorking)
             issues == SelectSeq(results, LAMBDA r : ~IsWorking(r))
         IN [report |-> [agent |-> "Link Validator",
                         findings |-> LinkFindings(urls, working_links, issues)],
             working_links |-> working_links, issues |-> issues,
             opened |-> urls]

\* The report run_link_validation returns.
LinkReport(text, outcomes) == run_link_validation(text, outcomes).report

\* The part of the synthesis prompt a report contributes.
Segment(report) ==
    IF "findings" \in DOMAIN report
    THEN [agent |-> report.agent, heading |-> "Report", text |-> report.findings]
    ELSE [agent |-> report.agent, heading |-> "Error: ", text |-> report.error]

CombinedFindingsDropsErrors(reports) ==
    LET kept == SelectSeq(reports, LAMBDA r : "findings" \in DOMAIN r)
    IN [i \in 1..Len(kept) |-> Segment(kept[i])]

\* combined_findings of run_editorial_synthesis: one part per report that
\* holds findings or an error, in the order of the reports.
CombinedFindings(reports) ==
    LET kept == SelectSeq(reports,
                  LAMBDA r : "findings" \in DOMAIN r \/ "error" \in DOMAIN r)
    IN [i \in 1..Len(kept) |-> Segment(kept[i])]

EditorialResultErrorAsReview(reports, outcome) ==
    [agent |-> "Senior Editor", review |-> outcome, agent_reports |-> reports]

\* The result of run_editorial_synthesis.
EditorialResult(reports, outcome) ==
    IF outcome = ApiError
    THEN [agent |-> "Senior Editor", error |-> outcome]
    ELSE [agent |-> "Senior Editor", review |-> outcome, agent_reports |-> reports]

(***************************************************************************)
(* The script: a run of it per user action, and per st.rerun()             *)
(***************************************************************************)

NoRun ==
    [handler |-> "none", outcome |-> "none", text |-> "", title |-> "",
     type |-> "", agent |-> 1, doc |-> 1, reports |-> << >>,
     combined |-> << >>, editorial |-> EmptyDict, rewrite |-> "",
     dbBefore |-> 0, saved |-> "no", accepts |-> FALSE, input |-> "",
     hadReview |-> FALSE, outcomes |-> << >>, links |-> EmptyDict,
     readable |-> FALSE, frame |-> << >>, written |-> << >>,
     typed |-> << >>, issues |-> << >>, given |-> EmptyDict]

\* render_sidebar of main.py asks for two guides on every run of the script
\* when the client exists; r1 and r2 are what the GETs end with.
Sidebar(r1, r2) ==
    IF entry = "main" /\ client
    THEN LET o1 == FetchOutcome(DOCS_CACHE, "style_guide", now, r1)
             o2 == FetchOutcome(o1.cache, "content_classification_guide", now, r2)
         IN [cache |-> o2.cache,
             last |-> [key |-> "content_classification_guide", at |-> now,
                       ret |-> o2.ret, gets |-> o2.gets, response |-> o2.response]]
    ELSE [cache |-> DOCS_CACHE, last |-> lastFetch]

\* st.session_state['analysis_results'] = None.  The code tests the value
\* for truth only; None is the value with no keys.
NoResults == << >>

Truthy(d) == DOMAIN d # {}

\* The top of the script up to the buttons: the session's defaults, and in
\* app.py the metadata, stored when the title is not empty.
Prologue(ss, title, type) ==
    IF entry = "main"
    THEN IF "analysis_results" \in DOMAIN ss THEN ss
         ELSE DictSet(ss, "analysis_results", NoResults)
    ELSE LET s1 == IF "messages" \in DOMAIN ss THEN ss
                   ELSE DictSet(ss, "messages", << >>)
         IN IF title # ""
            THEN DictSet(s1, "document_metadata",
                         [title |-> title, type |-> type, author |-> "User",
                          audience |-> "General"])
            ELSE s1

HaltsInBothEntryPoints == ~client

\* app.py stops at its top when no API key is set.
Halts == entry = "app" /\ ~client

\* A run of the script with no widget touched: the first one, and the one
\* st.rerun() starts.
Rerun ==
    /\ pc = "rerun"
    /\ IF Halts
       THEN /\ pc' = "halted"
            /\ UNCHANGED <<session_state, DOCS_CACHE, lastFetch>>
       ELSE /\ pc' = "idle"
            /\ session_state' = Prologue(session_state, doc_title, doc_type)
            /\ \E r1, r2 \in {remote} :
                /\ DOCS_CACHE' = Sidebar(r1, r2).cache
                /\ lastFetch' = Sidebar(r1, r2).last
    /\ run' = NoRun
    /\ llm_requests' = << >>
    /\ UNCHANGED <<entry, client, remote, now, doc_title, doc_type, document_text, db>>

\* The user edits the form; the script runs and no button is down.
EditForm ==
    /\ pc = "idle"
    /\ \E title \in Titles, type \in InputTypes(entry), text \in Texts :
        /\ <<title, type, text>> # <<doc_title, doc_type, document_text>>
        /\ doc_title' = title
        /\ doc_type' = type
        /\ document_text' = text
        /\ session_state' = Prologue(session_state, title, type)
    /\ \E r1, r2 \in {remote} :
        /\ DOCS_CACHE' = Sidebar(r1, r2).cache
        /\ lastFetch' = Sidebar(r1, r2).last
    /\ UNCHANGED <<entry, client, remote, now, db, pc, run, llm_requests>>

\* Clear Cache: DOCS_CACHE.clear(); in main.py the button comes after the
\* side bar's two fetches.
ClearCache ==
    /\ pc = "idle"
    /\ DOCS_CACHE' = EmptyDict
    /\ \E r1, r2 \in {remote} : lastFetch' = Sidebar(r1, r2).last
    /\ session_state' = Prologue(session_state, doc_title, doc_type)
    /\ UNCHANGED <<entry, client, remote, now, doc_title, doc_type, document_text, db,
                   pc, run, llm_requests>>

(***************************************************************************)
(* The review: Full Review (app.py), AI Analysis + Rewrite (main.py)       *)
(***************************************************************************)

ClickReviewWithoutText ==
    /\ pc = "idle"
    /\ entry = "main" => doc_title # ""
    /\ Len(db) < MaxRows
    /\ entry = "app" => Len(session_state["messages"]) < MaxMessages
    /\ session_state' = Prologue(session_state, doc_title, doc_type)
    /\ \E r1, r2 \in {remote} :
        /\ DOCS_CACHE' = Sidebar(r1, r2).cache
        /\ lastFetch' = Sidebar(r1, r2).last
    /\ llm_requests' = << >>
    /\ IF doc_title = "" \/ ~client
       THEN /\ pc' = "idle"
            /\ run' = [NoRun EXCEPT !.handler = "review", !.outcome = "refused"]
       ELSE /\ pc' = "phase1"
            /\ run' = [NoRun EXCEPT !.handler = "review", !.outcome = "running",
                                    !.text = document_text, !.title = doc_title,
                                    !.type = doc_type, !.dbBefore = Len(db)]
    /\ UNCHANGED <<entry, client, remote, now, doc_title, doc_type, document_text, db>>

\* The button, up to the call of run_multi_agent_review.  app.py warns when
\* the title is empty; main.py shows the buttons only with a title, and
\* refuses without a client.
ClickReview ==
    /\ pc = "idle"
    /\ document_text # ""
    /\ entry = "main" => doc_title # ""
    /\ Len(db) < MaxRows
    /\ entry = "app" => Len(session_state["messages"]) < MaxMessages
    /\ session_state' = Prologue(session_state, doc_title, doc_type)
    /\ \E r1, r2 \in {remote} :
        /\ DOCS_CACHE' = Sidebar(r1, r2).cache
        /\ lastFetch' = Sidebar(r1, r2).last
    /\ llm_requests' = << >>
    /\ IF doc_title = "" \/ ~client
       THEN /\ pc' = "idle"
            /\ run' = [NoRun EXCEPT !.handler = "review", !.outcome = "refused"]
       ELSE /\ pc' = "phase1"
            /\ run' = [NoRun EXCEPT !.handler = "review", !.outcome = "running",
                                    !.text = document_text, !.title = doc_title,
                                    !.type = doc_type, !.dbBefore = Len(db)]
    /\ UNCHANGED <<entry, client, remote, now, doc_title, doc_type, document_text, db>>

CurrentAgent == Phase1Agents(entry)[run.agent]

Phase1SettledAfterFirst == run.agent > 1

\* asyncio.gather has returned: every phase-1 task has ended with its report.
Phase1Settled == run.agent > Len(Phase1Agents(entry))

\* A phase-1 agent fetches its next reference document.  The tasks run one
\* after the other, in the order given to gather: no agent awaits anything,
\* so a task that has started runs to its return.
AgentFetch ==
    /\ pc = "phase1"
    /\ ~Phase1Settled
    /\ run.doc <= Len(AgentDocs(entry, CurrentAgent))
    /\ \E resp \in {remote} :
        fetch_documentation(AgentDocs(entry, CurrentAgent)[run.doc], resp)
    /\ run' = [run EXCEPT !.doc = @ + 1]
    /\ UNCHANGED <<entry, client, remote, now, doc_title, doc_type, document_text,
                   session_state, db, pc, llm_requests>>

AgentRequestRetriesOnce ==
    /\ pc = "phase1"
    /\ ~Phase1Settled
    /\ CurrentAgent # "Link Validator"
    /\ run.doc > Len(AgentDocs(entry, CurrentAgent))
    /\ \E outcome \in LlmOutcomes(CurrentAgent) :
        run' = IF /\ outcome = ApiError
                  /\ \A i \in 1..Len(llm_requests) : llm_requests[i] # CurrentAgent
               THEN [run EXCEPT !.title = run.title]
               ELSE [run EXCEPT !.reports = Append(@, AgentReport(CurrentAgent, outcome)),
                                !.agent = @ + 1, !.doc = 1]
    /\ llm_requests' = Append(llm_requests, CurrentAgent)
    /\ UNCHANGED <<entry, client, remote, now, DOCS_CACHE, lastFetch, doc_title, doc_type,
                   document_text, session_state, db, pc>>

\* A phase-1 language-model agent sends its request and returns its report.
AgentRequest ==
    /\ pc = "phase1"
    /\ ~Phase1Settled
    /\ CurrentAgent # "Link Validator"
    /\ run.doc > Len(AgentDocs(entry, CurrentAgent))
    /\ \E outcome \in LlmOutcomes(CurrentAgent) :
        run' = [run EXCEPT !.reports = Append(@, AgentReport(CurrentAgent, outcome)),
                           !.agent = @ + 1, !.doc = 1]
    /\ llm_requests' = Append(llm_requests, CurrentAgent)
    /\ UNCHANGED <<entry, client, remote, now, DOCS_CACHE, lastFetch, doc_title, doc_type,
                   document_text, session_state, db, pc>>

\* The Link Validator checks every link of the document and returns its report.
LinkValidation ==
    /\ pc = "phase1"
    /\ ~Phase1Settled
    /\ CurrentAgent = "Link Validator"
    /\ \E outcomes \in [1..Len(DocUrls(run.text)) -> LinkOutcomes] :
        run' = [run EXCEPT !.reports = Append(@, LinkReport(run.text, outcomes)),
                           !.outcomes = outcomes,
                           !.links = run_link_validation(run.text, outcomes),
                           !.agent = @ + 1, !.doc = 1]
    /\ UNCHANGED <<entry, client, remote, now, DOCS_CACHE, lastFetch, doc_title, doc_type,
                   document_text, session_state, db, pc, llm_requests>>

\* run_editorial_synthesis: the prompt over the reports, and the one request.
Synthesis ==
    /\ pc = "phase1"
    /\ Phase1Settled
    /\ \E outcome \in LlmOutcomes("Senior Editor") :
        run' = [run EXCEPT !.combined = CombinedFindings(run.reports),
                           !.editorial = EditorialResult(run.reports, outcome)]
    /\ llm_requests' = Append(llm_requests, "Senior Editor")
    /\ pc' = "synthesized"
    /\ UNCHANGED <<entry, client, remote, now, DOCS_CACHE, lastFetch, doc_title, doc_type,
                   document_text, session_state, db>>

\* The end of Full Review in app.py: run_multi_agent_review keeps a
\* successful review in the session and returns; the handler shows the review
\* and saves it, or shows the error; then st.rerun().
FinishReviewApp ==
    /\ pc = "synthesized"
    /\ entry = "app"
    /\ LET result == run.editorial
           s1 == IF "review" \in DOMAIN result
                 THEN DictSet(DictSet(DictSet(session_state,
                          "last_review", result.review),
                          "last_document", run.text),
                          "agent_reports", run.reports)
                 ELSE session_state
       IN IF "error" \notin DOMAIN result
          THEN \E accepts \in BOOLEAN :
                LET sv == Save(db, accepts, now, s1["document_metadata"].type,
                               doc_title, document_text,
                               Str(DictGet(result, "review",
                                           "Comprehensive review completed")),
                               "in_progress")
                IN /\ session_state' =
                        DictSet(s1, "messages",
                            Append(s1["messages"],
                                [role |-> "assistant", kind |-> "review",
                                 text |-> DictGet(result, "review", "Review completed")]))
                   /\ db' = sv.rows
                   /\ run' = [run EXCEPT
                                !.outcome = IF sv.raised THEN "exception" ELSE "done",
                                !.saved = IF sv.ret THEN "yes" ELSE "failed",
                                !.accepts = accepts]
                   /\ pc' = IF sv.raised THEN "idle" ELSE "rerun"
          ELSE /\ session_state' = s1
               /\ run' = [run EXCEPT !.outcome = "error shown"]
               /\ pc' = "rerun"
               /\ UNCHANGED db
    /\ UNCHANGED <<entry, client, remote, now, DOCS_CACHE, lastFetch, doc_title, doc_type,
                   document_text, llm_requests>>

AnalysisKeepsError(result) == result

\* What multi_agent_analysis of main.py returns: the result, or a str when
\* the result holds an error.
Analysis(result) ==
    IF "error" \in DOMAIN result
    THEN Str("Multi-agent analysis error")
    ELSE result

AnalysisReturnWithoutRaise ==
    /\ pc = "synthesized"
    /\ entry = "main"
    /\ pc' = "rewrite"
    /\ run' = [run EXCEPT !.doc = 1]
    /\ UNCHANGED <<entry, client, remote, now, DOCS_CACHE, lastFetch, doc_title, doc_type,
                   document_text, session_state, db, llm_requests>>

\* main.py, run_parallel_analysis after the analysis: analysis_result.get
\* raises on a str and the exception leaves the handler; on a result the
\* rewrite follows.
AnalysisReturn ==
    /\ pc = "synthesized"
    /\ entry = "main"
    /\ IF IsStr(Analysis(run.editorial))
       THEN /\ pc' = "idle"
            /\ run' = [run EXCEPT !.outcome = "exception"]
       ELSE /\ pc' = "rewrite"
            /\ run' = [run EXCEPT !.doc = 1]
    /\ UNCHANGED <<entry, client, remote, now, DOCS_CACHE, lastFetch, doc_title, doc_type,
                   document_text, session_state, db, llm_requests>>

\* The Technical Writer fetches its next reference document.
RewriteFetch ==
    /\ pc = "rewrite"
    /\ run.doc <= Len(AgentDocs(entry, "Technical Writer"))
    /\ \E resp \in {remote} :
        fetch_documentation(AgentDocs(entry, "Technical Writer")[run.doc], resp)
    /\ run' = [run EXCEPT !.doc = @ + 1]
    /\ UNCHANGED <<entry, client, remote, now, doc_title, doc_type, document_text,
                   session_state, db, pc, llm_requests>>

\* What the handler passes to the rewrite: app.py the text area and the
\* review kept in the session, main.py the text area and the review of the
\* analysis it has just awaited.
RewriteArguments ==
    IF entry = "app"
    THEN [original_text |-> document_text,
          guidance |-> DictItem(session_state, "last_review")]
    ELSE [original_text |-> document_text,
          guidance |-> DictGet(Analysis(run.editorial), "review",
                               "Analysis completed")]

\* The Technical Writer sends its request: the draft, or the error.
RewriteRequest ==
    /\ pc = "rewrite"
    /\ run.doc > Len(AgentDocs(entry, "Technical Writer"))
    /\ \E outcome \in LlmOutcomes("Technical Writer") :
        run' = [run EXCEPT !.rewrite = outcome, !.given = RewriteArguments]
    /\ llm_requests' = Append(llm_requests, "Technical Writer")
    /\ pc' = "rewritten"
    /\ UNCHANGED <<entry, client, remote, now, DOCS_CACHE, lastFetch, doc_title, doc_type,
                   document_text, session_state, db>>

\* The end of AI Analysis + Rewrite in main.py: the results are kept in the
\* session, save_review is called with the analysis, then st.rerun().
FinishReviewMain ==
    /\ pc = "rewritten"
    /\ entry = "main"
    /\ session_state' =
          DictSet(session_state, "analysis_results",
              [type |-> "AI Analysis + Rewrite", rewrite |-> run.rewrite,
               analysis |-> Analysis(run.editorial), document |-> document_text,
               title |-> doc_title, doc_type |-> doc_type])
    /\ \E accepts \in BOOLEAN :
        LET sv == Save(db, accepts, now, doc_type, doc_title, document_text,
                       Analysis(run.editorial), DefaultStatus(entry))
        IN /\ db' = sv.rows
           /\ run' = [run EXCEPT
                        !.outcome = IF sv.raised THEN "exception" ELSE "done",
                        !.saved = IF sv.ret THEN "yes" ELSE "failed",
                        !.accepts = accepts]
           /\ pc' = IF sv.raised THEN "idle" ELSE "rerun"
    /\ UNCHANGED <<entry, client, remote, now, DOCS_CACHE, lastFetch, doc_title, doc_type,
                   document_text, llm_requests>>

(***************************************************************************)
(* The chat input of app.py                                                *)
(***************************************************************************)

RoutesToRewriteWithoutDocument(input, text, ss) ==
    IsRewriteRequest(input) /\ "last_review" \in DOMAIN ss

RoutesToRewriteWithoutReview(input, text, ss) ==
    IsRewriteRequest(input) /\ text # ""

\* The condition of the rewrite branch.
RoutesToRewrite(input, text, ss) ==
    IsRewriteRequest(input) /\ text # "" /\ "last_review" \in DOMAIN ss

\* The user sends a chat input: it is kept as a message and routed.
ChatInput ==
    /\ pc = "idle"
    /\ entry = "app"
    /\ Len(session_state["messages"]) < MaxMessages
    /\ \E input \in ChatInputs :
        LET s1 == Prologue(session_state, doc_title, doc_type) IN
        /\ session_state' =
              DictSet(s1, "messages",
                  Append(s1["messages"],
                      [role |-> "user", kind |-> "input", text |-> input]))
        /\ run' = [NoRun EXCEPT !.handler = "chat", !.outcome = "running",
                                !.input = input, !.text = document_text,
                                !.hadReview = "last_review" \in DOMAIN session_state]
        /\ pc' = IF RoutesToRewrite(input, document_text, s1)
                 THEN "rewrite" ELSE "chat"
    /\ llm_requests' = << >>
    /\ UNCHANGED <<entry, client, remote, now, DOCS_CACHE, lastFetch, doc_title, doc_type,
                   document_text, db>>

\* The Chat Assistant fetches the next document its question asks for.
ChatFetch ==
    /\ pc = "chat"
    /\ run.doc <= Len(ChatDocs(run.input))
    /\ \E resp \in {remote} : fetch_documentation(ChatDocs(run.input)[run.doc], resp)
    /\ run' = [run EXCEPT !.doc = @ + 1]
    /\ UNCHANGED <<entry, client, remote, now, doc_title, doc_type, document_text,
                   session_state, db, pc, llm_requests>>

\* The Chat Assistant sends its request; the answer, or the apology with
\* the error, is kept as a message; then st.rerun().
ChatRequest ==
    /\ pc = "chat"
    /\ run.doc > Len(ChatDocs(run.input))
    /\ \E outcome \in LlmOutcomes("Chat Assistant") :
        session_state' =
            DictSet(session_state, "messages",
                Append(session_state["messages"],
                    [role |-> "assistant",
                     kind |-> IF outcome = ApiError THEN "chat error" ELSE "guidance",
                     text |-> outcome]))
    /\ llm_requests' = Append(llm_requests, "Chat Assistant")
    /\ run' = [run EXCEPT !.outcome = "done"]
    /\ pc' = "rerun"
    /\ UNCHANGED <<entry, client, remote, now, DOCS_CACHE, lastFetch, doc_title, doc_type,
                   document_text, db>>

\* The end of a rewrite asked for in the chat: the draft, or the apology
\* with the error, is kept as a message; then st.rerun().
FinishChatRewrite ==
    /\ pc = "rewritten"
    /\ entry = "app"
    /\ session_state' =
          DictSet(session_state, "messages",
              Append(session_state["messages"],
                  [role |-> "assistant",
                   kind |-> IF run.rewrite = ApiError THEN "rewrite error"
                            ELSE "improved draft",
                   text |-> run.rewrite]))
    /\ run' = [run EXCEPT !.outcome = "done"]
    /\ pc' = "rerun"
    /\ UNCHANGED <<entry, client, remote, now, DOCS_CACHE, lastFetch, doc_title, doc_type,
                   document_text, db, llm_requests>>

NewSessionKeepsReview ==
    /\ pc = "idle"
    /\ entry = "app"
    /\ session_state' =
          DictDel(Prologue(session_state, doc_title, doc_type),
                  {"messages", "document_metadata", "last_document", "agent_reports"})
    /\ pc' = "rerun"
    /\ UNCHANGED <<entry, client, remote, now, DOCS_CACHE, lastFetch, doc_title, doc_type,
                   document_text, db, run, llm_requests>>

\* New Session (app.py): the session's keys are deleted, then st.rerun().
NewSession ==
    /\ pc = "idle"
    /\ entry = "app"
    /\ session_state' =
          DictDel(Prologue(session_state, doc_title, doc_type),
                  {"messages", "document_metadata", "last_review",
                   "last_document", "agent_reports"})
    /\ pc' = "rerun"
    /\ UNCHANGED <<entry, client, remote, now, DOCS_CACHE, lastFetch, doc_title, doc_type,
                   document_text, db, run, llm_requests>>

\* New Analysis (main.py), shown with the results: analysis_results = None,
\* then st.rerun().
NewAnalysis ==
    /\ pc = "idle"
    /\ entry = "main"
    /\ Truthy(session_state["analysis_results"])
    /\ session_state' = DictSet(session_state, "analysis_results", NoResults)
    /\ \E r1, r2 \in {remote} :
        /\ DOCS_CACHE' = Sidebar(r1, r2).cache
        /\ lastFetch' = Sidebar(r1, r2).last
    /\ pc' = "rerun"
    /\ UNCHANGED <<entry, client, remote, now, doc_title, doc_type, document_text, db,
                   run, llm_requests>>

(***************************************************************************)
(* The application                                                         *)
(***************************************************************************)

Init ==
    /\ entry \in {"app", "main"}
    /\ client \in BOOLEAN
    /\ remote \in AppResponses
    /\ now = 0
    /\ DOCS_CACHE = EmptyDict
    /\ lastFetch = NoFetch
    /\ doc_title = ""
    /\ doc_type = DocTypeList(entry)[1]
    /\ document_text = ""
    /\ session_state = EmptyDict
    /\ db = << >>
    /\ pc = "rerun"
    /\ run = NoRun
    /\ llm_requests = << >>

Next ==
    \/ Rerun
    \/ EditForm
    \/ ClearCache
    \/ ClickReview
    \/ AgentFetch
    \/ AgentRequest
    \/ LinkValidation
    \/ Synthesis
    \/ FinishReviewApp
    \/ AnalysisReturn
    \/ RewriteFetch
    \/ RewriteRequest
    \/ FinishReviewMain
    \/ ChatInput
    \/ ChatFetch
    \/ ChatRequest
    \/ FinishChatRewrite
    \/ NewSession
    \/ NewAnalysis

Spec == Init /\ [][Next]_vars

(***************************************************************************)
(* The documentation fetcher on its own: calls with any key, at any time.  *)
(***************************************************************************)

FetchCall ==
    /\ pc = "fetcher"
    /\ \E k \in CallKeys, resp \in Responses : fetch_documentation(k, resp)
    /\ UNCHANGED now
    /\ UNCHANGED appVars

\* Time passes.
Tick ==
    /\ pc = "fetcher"
    /\ \E d \in ClockSteps :
        /\ now + d <= MaxNow
        /\ now' = now + d
    /\ UNCHANGED <<DOCS_CACHE, lastFetch>>
    /\ UNCHANGED appVars

FetcherClear ==
    /\ pc = "fetcher"
    /\ DOCS_CACHE' = EmptyDict
    /\ UNCHANGED <<now, lastFetch>>
    /\ UNCHANGED appVars

InitFetch ==
    /\ entry = "app"
    /\ client = TRUE
    /\ remote = "docA"
    /\ now = 0
    /\ DOCS_CACHE = EmptyDict
    /\ lastFetch = NoFetch
    /\ doc_title = ""
    /\ doc_type = DocTypeList("app")[1]
    /\ document_text = ""
    /\ session_state = EmptyDict
    /\ db = << >>
    /\ pc = "fetcher"
    /\ run = NoRun
    /\ llm_requests = << >>

NextFetch == FetchCall \/ Tick \/ FetcherClear

SpecFetch == InitFetch /\ [][NextFetch]_vars

(***************************************************************************)
(* The link validator on its own: any document, any outcome of each check. *)
(***************************************************************************)

\* The documents the validator is seen to be given.
LinkTexts ==
    {"Intro text.",
     "Use http:// or https://)",
     "See https://example.com/missing",
     "(https://github.com/o/r/blob/master/a.md)",
     "https://docs.github.com/en",
     "https://docs.example.com/v1/a",
     "http://example.com/api/users",
     "https://a.io/x https://a.io/x",
     "https://a.io/x http://b.io/y"}

LinkCall ==
    /\ pc = "links"
    /\ \E text \in LinkTexts :
        \E outcomes \in [1..Len(DocUrls(text)) -> UrlOutcomes] :
            run' = [NoRun EXCEPT !.handler = "links", !.outcome = "done",
                                 !.text = text, !.outcomes = outcomes,
                                 !.links = run_link_validation(text, outcomes)]
    /\ UNCHANGED <<entry, client, remote, now, DOCS_CACHE, lastFetch, doc_title,
                   doc_type, document_text, session_state, db, pc, llm_requests>>

InitLinks ==
    /\ entry = "main"
    /\ client = TRUE
    /\ remote = "docA"
    /\ now = 0
    /\ DOCS_CACHE = EmptyDict
    /\ lastFetch = NoFetch
    /\ doc_title = ""
    /\ doc_type = DocTypeList("main")[1]
    /\ document_text = ""
    /\ session_state = EmptyDict
    /\ db = << >>
    /\ pc = "links"
    /\ run = NoRun
    /\ llm_requests = << >>

NextLinks == LinkCall

SpecLinks == InitLinks /\ [][NextLinks]_vars

(***************************************************************************)
(* The store on its own: writes and reads in any order.                    *)
(***************************************************************************)

\* The rows the table is seen to grow to when the store is used on its own.
MaxStoreRows == 2

\* The seconds the clock is seen to advance by between the calls.
MaxStoreNow == 1

\* The titles and the original texts the rows are seen to be written with.
StoreTitles == {"Guide", ""}

StoreTexts == {"Intro text.", "See https://example.com/missing"}

\* A call of the save function of the entry point; run.written keeps the
\* rows of the calls that returned True.
StoreSave ==
    /\ pc = "store"
    /\ Len(db) < MaxStoreRows
    /\ \E title \in StoreTitles, type \in InputTypes(entry), text \in StoreTexts,
          accepts \in BOOLEAN :
        LET sv == Save(db, accepts, now, type, title, text, Str("Review"),
                       DefaultStatus(entry))
        IN /\ db' = sv.rows
           /\ run' = [run EXCEPT
                        !.handler = "save", !.outcome = "done",
                        !.title = title, !.type = type, !.text = text,
                        !.accepts = accepts, !.dbBefore = Len(db),
                        !.saved = IF sv.ret THEN "yes" ELSE "failed",
                        !.frame = << >>,
                        !.written =
                            IF sv.ret
                            THEN Append(@, [timestamp |-> now, document_type |-> type,
                                            document_title |-> title,
                                            original_text |-> text,
                                            review_notes |-> "Review",
                                            review_status |-> DefaultStatus(entry)])
                            ELSE @]
    /\ UNCHANGED <<entry, client, remote, now, DOCS_CACHE, lastFetch, doc_title,
                   doc_type, document_text, session_state, pc, llm_requests>>

\* A call of the read function of the entry point.
StoreRead ==
    /\ pc = "store"
    /\ \E readable \in BOOLEAN :
        \E frame \in get_reviews(db, readable) :
            run' = [run EXCEPT !.handler = "read", !.outcome = "done",
                               !.readable = readable, !.frame = frame]
    /\ UNCHANGED <<entry, client, remote, now, DOCS_CACHE, lastFetch, doc_title,
                   doc_type, document_text, session_state, db, pc, llm_requests>>

StoreTick ==
    /\ pc = "store"
    /\ now < MaxStoreNow
    /\ now' = now + 1
    /\ UNCHANGED <<entry, client, remote, DOCS_CACHE, lastFetch, doc_title,
                   doc_type, document_text, session_state, db, pc, run,
                   llm_requests>>

InitStore ==
    /\ entry \in {"app", "main"}
    /\ client = TRUE
    /\ remote = "docA"
    /\ now = 0
    /\ DOCS_CACHE = EmptyDict
    /\ lastFetch = NoFetch
    /\ doc_title = ""
    /\ doc_type = DocTypeList(entry)[1]
    /\ document_text = ""
    /\ session_state = EmptyDict
    /\ db = << >>
    /\ pc = "store"
    /\ run = NoRun
    /\ llm_requests = << >>

NextStore == StoreSave \/ StoreRead \/ StoreTick

SpecStore == InitStore /\ [][NextStore]_vars

(***************************************************************************)
(* The heuristic checkers on their own: any document typed into the form.  *)
(***************************************************************************)

\* The pieces a document is seen to be typed from: the filler words in
\* several cases and inside a longer word, ends of sentences, sentences of
\* 26 and of 25 words, and a clause for the other rules.
Pieces ==
    {"Very ", "every actually, ", "Really. ", "?! ",
     "w w w w w w w w w w w w w w w w w w w w w w w w w w ",
     "w w w w w w w w w w w w w w w w w w w w w w w w w ",
     "will be saved with the button "}

\* The pieces a document is seen to be typed from, at most.
MaxPieces == 3

\* The characters of a document typed as the pieces given.
RECURSIVE Typed(_)
Typed(pieces) ==
    IF pieces = << >> THEN << >>
    ELSE Chars(Head(pieces)) \o Typed(Tail(pieces))

\* The user types one more piece into the text area.
Type ==
    /\ pc = "check"
    /\ Len(run.typed) < MaxPieces
    /\ \E piece \in Pieces :
        run' = [run EXCEPT !.handler = "type", !.typed = Append(@, piece),
                           !.issues = << >>]
    /\ UNCHANGED <<entry, client, remote, now, DOCS_CACHE, lastFetch, doc_title,
                   doc_type, document_text, session_state, db, pc, llm_requests>>

\* Quick Check (app.py) and Quick Analysis (main.py): the checker of the
\* entry point on the document typed.
CheckCall ==
    /\ pc = "check"
    /\ Len(run.typed) > 0
    /\ run' = [run EXCEPT
                !.handler = "check", !.outcome = "done",
                !.issues = IF entry = "app"
                           THEN analyze_technical_writing_issues(Typed(run.typed))
                           ELSE quick_analysis(Typed(run.typed))]
    /\ UNCHANGED <<entry, client, remote, now, DOCS_CACHE, lastFetch, doc_title,
                   doc_type, document_text, session_state, db, pc, llm_requests>>

InitCheck ==
    /\ entry \in {"app", "main"}
    /\ client = TRUE
    /\ remote = "docA"
    /\ now = 0
    /\ DOCS_CACHE = EmptyDict
    /\ lastFetch = NoFetch
    /\ doc_title = ""
    /\ doc_type = DocTypeList(entry)[1]
    /\ document_text = ""
    /\ session_state = EmptyDict
    /\ db = << >>
    /\ pc = "check"
    /\ run = NoRun
    /\ llm_requests = << >>

NextCheck == Type \/ CheckCall

SpecCheck == InitCheck /\ [][NextCheck]_vars

(***************************************************************************)
(* Properties of the documentation fetcher                                 *)
(***************************************************************************)

\* The step is a call of fetch_documentation(k).
FetchStep(k) ==
    /\ now' = now
    /\ \E resp \in Responses : fetch_documentation(k, resp)

\* C1: a call for a known key whose cache entry is younger than 3600 seconds
\* issues no GET, returns the content the entry holds and leaves the cache as
\* it was, however many such calls were made before.
C1_CachedFetchIsIdempotent ==
    [][\A k \in DOCUMENTATION_URLS :
        (/\ FetchStep(k)
         /\ k \in DOMAIN DOCS_CACHE
         /\ now - DOCS_CACHE[k].timestamp < 3600)
        => /\ lastFetch'.gets = 0
           /\ lastFetch'.ret = DOCS_CACHE[k].content
           /\ DOCS_CACHE' = DOCS_CACHE]_vars

\* A call answered from an entry aged 3599 seconds, one second inside the window.
C1_Witness ==
    /\ lastFetch.key \in DOCUMENTATION_URLS
    /\ lastFetch.key \in DOMAIN DOCS_CACHE
    /\ lastFetch.at - DOCS_CACHE[lastFetch.key].timestamp = 3599
    /\ lastFetch.gets = 0
    /\ lastFetch.ret = DOCS_CACHE[lastFetch.key].content

\* C2: a call for a known key issues a GET if and only if the cache has no
\* entry for the key or the entry is 3600 seconds old or older, and then it
\* issues exactly one.
C2_GetIffAbsentOrExpired ==
    [][\A k \in DOCUMENTATION_URLS :
        FetchStep(k)
        => lastFetch'.gets =
              IF \/ k \notin DOMAIN DOCS_CACHE
                 \/ now - DOCS_CACHE[k].timestamp >= 3600
              THEN 1 ELSE 0]_vars

\* A call made when the entry was exactly 3600 seconds old issued a GET (which
\* failed, so that the entry is still there to be seen).
C2_Witness ==
    /\ lastFetch.key \in DOCUMENTATION_URLS
    /\ lastFetch.key \in DOMAIN DOCS_CACHE
    /\ lastFetch.at - DOCS_CACHE[lastFetch.key].timestamp = 3600
    /\ lastFetch.gets = 1

\* C3: a call with an unknown key returns None without a GET; a call whose
\* GET fails returns None after that one GET; both leave the cache as it was,
\* an expired entry for the key included.
C3_AbsenceLeavesCache ==
    [][\A k \in CallKeys :
        FetchStep(k)
        => /\ (k \notin DOCUMENTATION_URLS)
                => /\ lastFetch'.ret = None
                   /\ lastFetch'.gets = 0
                   /\ DOCS_CACHE' = DOCS_CACHE
           /\ (lastFetch'.response = "RequestException")
                => /\ lastFetch'.ret = None
                   /\ lastFetch'.gets = 1
                   /\ DOCS_CACHE' = DOCS_CACHE]_vars

\* A failed GET for a key whose expired entry is still in the cache.
C3_Witness ==
    /\ lastFetch.response = "RequestException"
    /\ lastFetch.ret = None
    /\ lastFetch.key \in DOMAIN DOCS_CACHE
    /\ lastFetch.at - DOCS_CACHE[lastFetch.key].timestamp >= 3600

\* C4: a successful GET for k leaves under k exactly the fetched content and
\* the time of the call, whatever was there, and leaves every other key's
\* entry (and absence) as it was.
C4_SuccessReplacesOnlyItsKey ==
    [][\A k \in DOCUMENTATION_URLS :
        (FetchStep(k) /\ lastFetch'.response \in Contents)
        => /\ DOMAIN DOCS_CACHE' = (DOMAIN DOCS_CACHE) \cup {k}
           /\ DOCS_CACHE'[k] =
                [content |-> lastFetch'.response, timestamp |-> now]
           /\ \A x \in (DOMAIN DOCS_CACHE) \ {k} :
                DOCS_CACHE'[x] = DOCS_CACHE[x]]_vars

\* A successful re-fetch, after expiry, with another key's older entry
\* still in the cache.
C4_Witness ==
    /\ lastFetch.response \in Contents
    /\ lastFetch.at >= 3600
    /\ DOCS_CACHE[lastFetch.key] =
          [content |-> lastFetch.response, timestamp |-> lastFetch.at]
    /\ \E x \in (DOMAIN DOCS_CACHE) \ {lastFetch.key} :
          DOCS_CACHE[x].timestamp < lastFetch.at

(***************************************************************************)
(* Properties of the review run                                            *)
(***************************************************************************)

\* The requests the handler in progress has sent as the given agent.
Requests(agent) == Len(SelectSeq(llm_requests, LAMBDA a : a = agent))

\* A report holds findings or an error, not both.
Settled(report) == ("findings" \in DOMAIN report) # ("error" \in DOMAIN report)

\* Every phase-1 task of the run has returned its report.
AllReported ==
    /\ Len(run.reports) = Len(Phase1Agents(entry))
    /\ \A i \in 1..Len(run.reports) :
        /\ run.reports[i].agent = Phase1Agents(entry)[i]
        /\ Settled(run.reports[i])

\* The phase-1 agents that call the language model.
LlmAgents == {"Content Analyzer", "Style Guide Enforcer"}

\* The request of every phase-1 language-model agent of the run has raised.
AllLlmAgentsFailed ==
    /\ AllReported
    /\ \A i \in 1..Len(run.reports) :
        run.reports[i].agent \in LlmAgents => "error" \in DOMAIN run.reports[i]

\* C5: the Senior Editor's request is sent once at most in a run, and only
\* when every phase-1 task of the run (Content, Style, and in main.py the
\* Link Validator) has returned its findings or its error.
C5_SynthesisAfterPhase1 ==
    /\ Requests("Senior Editor") <= 1
    /\ Requests("Senior Editor") = 1 => (run.handler = "review" /\ AllReported)

\* The synthesis request of a main.py run whose Style agent had failed.
C5_Witness ==
    /\ entry = "main"
    /\ Requests("Senior Editor") = 1
    /\ Len(run.reports) = 3
    /\ "error" \in DOMAIN run.reports[2]
    /\ "findings" \in DOMAIN run.reports[1]

\* C6: whichever phase-1 requests raise, the run goes on: a run in phase 1
\* always has a next step, a run ends only after the synthesis request, and
\* the synthesis is given one report per phase-1 agent, with the message of
\* every failed agent in the combined findings, as 'Error: ' and the message.
C6_FailuresCarriedIntoSynthesis ==
    /\ pc = "phase1"
        => ENABLED (AgentFetch \/ AgentRequest \/ LinkValidation \/ Synthesis)
    /\ (run.handler = "review" /\ run.outcome \notin {"running", "refused", "none"})
        => Requests("Senior Editor") = 1
    /\ pc = "synthesized"
        => /\ AllReported
           /\ Len(run.combined) = Len(run.reports)
           /\ \A i \in 1..Len(run.reports) :
                /\ run.combined[i].agent = run.reports[i].agent
                /\ "error" \in DOMAIN run.reports[i]
                    => /\ run.combined[i].heading = "Error: "
                       /\ run.combined[i].text = run.reports[i].error
                /\ "findings" \in DOMAIN run.reports[i]
                    => /\ run.combined[i].heading = "Report"
                       /\ run.combined[i].text = run.reports[i].findings

\* A synthesis over one failed and one successful language-model agent.
C6_Witness ==
    /\ pc = "synthesized"
    /\ "error" \in DOMAIN run.reports[1]
    /\ "findings" \in DOMAIN run.reports[2]
    /\ run.combined[1].heading = "Error: "

\* C7, as claimed: when every phase-1 language-model request has raised, the
\* synthesis still returns a result that carries a review.
C7_Claimed_ReviewDespiteOutage ==
    (pc = "synthesized" /\ AllLlmAgentsFailed) => "review" \in DOMAIN run.editorial

\* C7, amended: when every phase-1 language-model request has raised, the
\* synthesis is still requested, over a prompt that carries each error; its
\* result carries a review with the reports when its own request succeeds,
\* and the error, not a review, when its own request raises as well.
C7_SynthesisUnderOutage ==
    (pc = "synthesized" /\ AllLlmAgentsFailed)
    => /\ Requests("Senior Editor") = 1
       /\ \A i \in 1..Len(run.reports) :
            run.reports[i].agent \in LlmAgents
            => run.combined[i] = [agent |-> run.reports[i].agent,
                                  heading |-> "Error: ", text |-> ApiError]
       /\ ("review" \in DOMAIN run.editorial) # ("error" \in DOMAIN run.editorial)
       /\ "review" \in DOMAIN run.editorial
            => /\ run.editorial.review \in ReviewTexts
               /\ run.editorial.agent_reports = run.reports
       /\ "error" \in DOMAIN run.editorial => run.editorial.error = ApiError

\* Every language-model request of the run has raised, the synthesis included.
C7_Witness ==
    /\ pc = "synthesized"
    /\ AllLlmAgentsFailed
    /\ "error" \in DOMAIN run.editorial

\* The review handler has ended and its synthesis returned a review.
ReviewEndedWithReview ==
    /\ run.handler = "review"
    /\ run.outcome \in {"done", "exception"}
    /\ "review" \in DOMAIN run.editorial

\* C8, as claimed: a run that ends with a review, with a store that takes
\* the write, has added exactly one row, which holds the submitted type,
\* title and text and the review as review_notes; in both entry points.
C8_Claimed_OneRowPerReview ==
    (ReviewEndedWithReview /\ run.accepts)
    => /\ Len(db) = run.dbBefore + 1
       /\ db[Len(db)].document_type = run.type
       /\ db[Len(db)].document_title = run.title
       /\ db[Len(db)].original_text = run.text
       /\ db[Len(db)].review_notes = run.editorial.review

\* C9: a store write that fails ends inside the save operation, which
\* returns False; the handler goes on to its end, no row is added, and the
\* review stays recorded for display: as the last message in app.py, in
\* analysis_results in main.py.
C9_FailedSaveKeepsResult ==
    (run.handler = "review" /\ run.saved # "no" /\ Len(db) = run.dbBefore)
    => /\ run.saved = "failed"
       /\ run.outcome = "done"
       /\ pc = "rerun"
       /\ entry = "app"
            => LET ms == session_state["messages"] IN
               /\ Len(ms) >= 1
               /\ ms[Len(ms)] = [role |-> "assistant", kind |-> "review",
                                 text |-> run.editorial.review]
       /\ entry = "main"
            => /\ "analysis_results" \in DOMAIN session_state
               /\ session_state["analysis_results"].type = "AI Analysis + Rewrite"
               /\ session_state["analysis_results"].analysis = run.editorial
               /\ session_state["analysis_results"].rewrite = run.rewrite

\* A Full Review of app.py whose write the store refused.
C9_Witness ==
    /\ entry = "app"
    /\ run.handler = "review"
    /\ run.saved = "failed"
    /\ ~run.accepts
    /\ Len(db) = run.dbBefore

\* A chat input with a rewrite phrase, handled while the session held no
\* review, has been answered.
RewriteAskedWithoutReview ==
    /\ run.handler = "chat"
    /\ run.outcome = "done"
    /\ IsRewriteRequest(run.input)
    /\ ~run.hadReview

\* C10, as claimed: a rewrite asked for while the session holds no review is
\* answered without any language-model request.
C10_Claimed_NoRequestWithoutReview ==
    RewriteAskedWithoutReview => llm_requests = << >>

\* C10, amended: a rewrite asked for while the session holds no review is
\* not given to the Technical Writer; it is handled as a chat question, with
\* one request by the Chat Assistant, whose guidance, or whose error in an
\* apology, is the answer.
C10_RewriteWithoutReviewGoesToChat ==
    RewriteAskedWithoutReview
    => /\ llm_requests = <<"Chat Assistant">>
       /\ LET ms == session_state["messages"] IN
          /\ Len(ms) >= 2
          /\ ms[Len(ms) - 1] = [role |-> "user", kind |-> "input", text |-> run.input]
          /\ ms[Len(ms)].role = "assistant"
          /\ ms[Len(ms)].kind \in {"guidance", "chat error"}

\* Such an input, with a document in the text area, has been answered.
C10_Witness ==
    /\ RewriteAskedWithoutReview
    /\ run.text # ""
    /\ run.input = "Rewrite"

(***************************************************************************)
(* Properties of the handlers                                              *)
(***************************************************************************)

\* C11, as claimed: no handler of a user action ends by an exception that
\* leaves it; whatever request or fetch fails, the action ends with a result
\* or with an error shown, the review of main.py whose analysis returns an
\* error included.
C11_Claimed_NoUnhandledException ==
    run.outcome # "exception"

(***************************************************************************)
(* Properties of the link validator                                        *)
(***************************************************************************)

\* A call of run_link_validation has returned.
LinksRun == run.handler = "links"

\* The urls of the document of the call, as extracted.
Urls == DocUrls(run.text)

\* The number of places of a sequence that hold u.
Occurrences(u, seq) == Cardinality({i \in 1..Len(seq) : seq[i] = u})

UrlsOf(results) == [i \in 1..Len(results) |-> results[i].url]

\* C12, as claimed: for a document with N distinct urls, N >= 1, the working
\* links and the issues together number N, the header states N, and every
\* url is in exactly one of the two lists.
C12_Claimed_CountsDistinctUrls ==
    (LinksRun /\ Len(Urls) >= 1)
    => LET distinct == {Urls[i] : i \in 1..Len(Urls)}
           N == Cardinality(distinct)
       IN /\ Len(run.links.working_links) + Len(run.links.issues) = N
          /\ run.links.report.findings[1].count = N
          /\ \A u \in distinct :
                (Occurrences(u, UrlsOf(run.links.working_links)) > 0)
                # (Occurrences(u, UrlsOf(run.links.issues)) > 0)

\* C12, amended: N counts the urls as extracted, a url as often as it occurs
\* in the document: each occurrence is checked and placed in exactly one of
\* the two lists, none is dropped, the working links and the issues together
\* number N, and the header states N.
C12_EveryExtractedUrlCounted ==
    (LinksRun /\ Len(Urls) >= 1)
    => /\ Len(run.links.working_links) + Len(run.links.issues) = Len(Urls)
       /\ run.links.report.findings[1].count = Len(Urls)
       /\ run.links.opened = Urls
       /\ \A i \in 1..Len(Urls) :
            Occurrences(Urls[i], UrlsOf(run.links.working_links))
            + Occurrences(Urls[i], UrlsOf(run.links.issues))
            = Occurrences(Urls[i], Urls)

\* A document that holds one url twice; the first check found it working,
\* the second did not, and it is in both lists.
C12_Witness ==
    /\ LinksRun
    /\ Len(Urls) = 2
    /\ Urls[1] = Urls[2]
    /\ UrlsOf(run.links.working_links) = <<Urls[1]>>
    /\ UrlsOf(run.links.issues) = <<Urls[2]>>

\* No place of the text starts a match of url_pattern.
NoUrlIn(cs) ==
    \A i \in 1..Len(cs) :
        \/ SchemeAt(cs, i) = 0
        \/ i + SchemeAt(cs, i) > Len(cs)
        \/ cs[i + SchemeAt(cs, i)] \in UrlStop

\* C13: for a document without a url the validator returns the one report
\* that says no links were found, as findings, and opens no url.
C13_NoLinksNoRequest ==
    (LinksRun /\ NoUrlIn(Chars(run.text)))
    => /\ run.links.report =
            [agent |-> "Link Validator",
             findings |-> <<[part |-> "No external links found"]>>]
       /\ run.links.opened = << >>
       /\ run.links.working_links = << >>
       /\ run.links.issues = << >>

\* A document that names the two schemes with no url after them.
C13_Witness ==
    /\ LinksRun
    /\ run.text = "Use http:// or https://)"
    /\ NoUrlIn(Chars(run.text))
    /\ run.links.opened = << >>

\* C14: whatever a check ends with, every url of the document is opened and
\* classified, and the validator returns findings over all of them, never an
\* error report: a url whose check failed is among the issues, with its
\* part in the findings, and a url found working is among the working links.
C14_LinkChecksIndependent ==
    (LinksRun /\ Len(Urls) >= 1)
    => /\ run.links.opened = Urls
       /\ DOMAIN run.links.report = {"agent", "findings"}
       /\ \A i \in 1..Len(Urls) :
            IF run.outcomes[i] = Response(200)
            THEN Occurrences(Urls[i], UrlsOf(run.links.working_links)) > 0
            ELSE /\ Occurrences(Urls[i], UrlsOf(run.links.issues)) > 0
                 /\ \E j \in 1..Len(run.links.report.findings) :
                        /\ run.links.report.findings[j].part = "issue"
                        /\ run.links.report.findings[j].url = Urls[i]

\* The check of the first of two urls raised, and the second url was still
\* checked and found working.
C14_Witness ==
    /\ LinksRun
    /\ Len(Urls) = 2
    /\ Urls[1] # Urls[2]
    /\ run.outcomes[1].kind = "exception"
    /\ run.outcomes[2] = Response(200)
    /\ UrlsOf(run.links.working_links) = <<Urls[2]>>
    /\ UrlsOf(run.links.issues) = <<Urls[1]>>

\* The result r is what the classification gives for a check that ended with o.
Classified(o, r) ==
    IF o = Response(200)
    THEN /\ r.status = <<CheckMark, " Working">>
         /\ r.suggestion = NoSuggestion
    ELSE IF o.kind = "response"
    THEN /\ r.status = <<WarnMark, " HTTP ", ToString(o.code)>>
         /\ r.code = o.code
    ELSE IF o = HttpError(404)
    THEN /\ r.status = <<CrossMark, " Not Found (404)">>
         /\ r.code = 404
         /\ Len(r.suggestion) > 0
    ELSE IF o \in {HttpError(401), HttpError(403)}
    THEN /\ r.status = <<LockMark, " Access Restricted (", ToString(o.code), ")">>
         /\ r.code = o.code
    ELSE IF o.kind = "HTTPError"
    THEN /\ r.status = <<CrossMark, " HTTP ", ToString(o.code)>>
         /\ r.code = o.code
    ELSE /\ SubSeq(r.status, 1, 2) = <<CrossMark, " Error: ">>
         /\ Len(r.status) - 2 <= 50
         /\ Len(r.status) - 2 = 50 \/ Len(r.status) - 2 = Len(Chars(o.msg))
         /\ \A k \in 1..(Len(r.status) - 2) : r.status[k + 2] = Chars(o.msg)[k]
         /\ r.code = "ERROR"
         /\ Len(r.suggestion) > 0

\* C15: every check is classified by what it ended with: 200 as Working
\* with no suggestion; another response by its code; 404 as Not Found (404)
\* with a suggestion that is not empty; 401 and 403 as Access Restricted with
\* the code; another HTTP error as HTTP and the code; another exception as
\* Error with the first 50 characters of the message, the code ERROR and a
\* suggestion.  The working links are the checks that ended with 200, no other.
C15_LinkClassification ==
    (LinksRun /\ Len(Urls) >= 1)
    => /\ \A i \in 1..Len(Urls) :
            LET list == IF run.outcomes[i] = Response(200)
                        THEN run.links.working_links ELSE run.links.issues
            IN \E j \in 1..Len(list) :
                    /\ list[j].url = Urls[i]
                    /\ Classified(run.outcomes[i], list[j])
       /\ Len(run.links.working_links) =
            Cardinality({i \in 1..Len(Urls) : run.outcomes[i] = Response(200)})
       /\ \A j \in 1..Len(run.links.working_links) :
            run.links.working_links[j].code = 200

\* The url https://example.com/missing answered with 404: Not Found (404)
\* and a suggestion that is not empty.
C15_Witness ==
    /\ LinksRun
    /\ run.text = "See https://example.com/missing"
    /\ run.outcomes = <<HttpError(404)>>
    /\ Len(run.links.issues) = 1
    /\ run.links.issues[1].status = <<CrossMark, " Not Found (404)">>
    /\ Len(run.links.issues[1].suggestion) > 0

\* The advice of a suggestion, in order.
Advice(suggestion) == [i \in 1..Len(suggestion) |-> suggestion[i].advice]

Has(seq, x) == \E i \in 1..Len(seq) : seq[i] = x

OnCodeHost(url) == Contains(urlparse(url).netloc, Chars("github.com"))

HasBlob(url) == Contains(urlparse(url).path, Chars("/blob/"))

OnDocSite(url) ==
    \E doc_site \in {"docs.", "documentation.", "wiki."} :
        Contains(urlparse(url).netloc, Chars(doc_site))

HasApiSegment(url) ==
    \E api_term \in {"/api/", "/v1/", "/v2/", "/rest/"} :
        Contains(urlparse(url).path, Chars(api_term))

RepoAdvice ==
    <<"Repository may have moved - check if it was renamed or transferred",
      "Branch may have changed (master -> main)">>

DocsAdvice ==
    <<"Documentation may have been restructured - check site's search",
      "Try removing version numbers from URL path">>

ApiAdvice ==
    <<"API version may have changed - check for newer versions",
      "Endpoint may have been deprecated - check API changelog">>

\* The last two lines of a suggestion are the manual check of the site and
\* the search of the archive for the url.
EndsWithGeneralAdvice(url, suggestion) ==
    /\ Len(suggestion) >= 2
    /\ suggestion[Len(suggestion) - 1] =
          Line("Check site manually: ",
               urlparse(url).scheme \o Chars("://") \o urlparse(url).netloc)
    /\ suggestion[Len(suggestion)] =
          Line("Search archive: https://web.archive.org/web/", url)

\* The issues of the call that are answers 404.
NotFound ==
    SelectSeq(run.links.issues, LAMBDA r : r.status = <<CrossMark, " Not Found (404)">>)

\* C16, as claimed: the advice for a 404 is that of the first branch that
\* matches: code host and blob path; else documentation site; else API
\* path; the general advice is added in every case.
C16_Claimed_FlatPriority ==
    LinksRun
    => \A j \in 1..Len(NotFound) :
        LET url == NotFound[j].url
            lines == Advice(NotFound[j].suggestion)
        IN /\ EndsWithGeneralAdvice(url, NotFound[j].suggestion)
           /\ IF OnCodeHost(url) /\ HasBlob(url)
              THEN /\ SubSeq(lines, 1, 2) = RepoAdvice
                   /\ Has(lines, "Try archive: https://web.archive.org/web/")
              ELSE IF OnDocSite(url)
              THEN SubSeq(lines, 1, 2) = DocsAdvice
              ELSE IF HasApiSegment(url)
              THEN SubSeq(lines, 1, 2) = ApiAdvice
              ELSE TRUE

\* C16, amended: a url on the code host takes the first branch whether or
\* not its path has a blob segment: it gets the archive link, after the
\* repository and branch advice when the path has a blob segment, and never
\* the documentation or API advice.  Another url gets the documentation
\* advice when its host matches a documentation pattern, else the API advice
\* when its path has an API segment.  The general advice ends every suggestion.
C16_CodeHostBranchFirst ==
    LinksRun
    => \A j \in 1..Len(NotFound) :
        LET url == NotFound[j].url
            lines == Advice(NotFound[j].suggestion)
            specific == SubSeq(lines, 1, Len(lines) - 2)
        IN /\ EndsWithGeneralAdvice(url, NotFound[j].suggestion)
           /\ specific =
                IF OnCodeHost(url)
                THEN (IF HasBlob(url) THEN RepoAdvice ELSE << >>)
                     \o <<"Try archive: https://web.archive.org/web/">>
                ELSE IF OnDocSite(url) THEN DocsAdvice
                ELSE IF HasApiSegment(url) THEN ApiAdvice
                ELSE << >>

\* A 404 for a url of the code host with a documentation host name and no
\* blob segment: the archive link and the general advice, nothing else.
C16_Witness ==
    /\ LinksRun
    /\ run.text = "https://docs.github.com/en"
    /\ Len(NotFound) = 1
    /\ OnCodeHost(NotFound[1].url) /\ OnDocSite(NotFound[1].url)
    /\ Advice(NotFound[1].suggestion) =
          <<"Try archive: https://web.archive.org/web/", "Check site manually: ",
            "Search archive: https://web.archive.org/web/">>

(***************************************************************************)
(* Properties of the store                                                 *)
(***************************************************************************)

\* The document a row was written for.
Written(row) ==
    <<row.document_title, row.document_type, row.original_text>>

\* C17, as claimed: every read-all after writes that returned True returns,
\* for each of them, a row with the title, the type and the original text
\* written.
C17_Claimed_ReadReturnsWritten ==
    run.handler = "read"
    => \A k \in 1..Len(run.written) :
         \E j \in 1..Len(run.frame) :
            Written(run.frame[j]) = Written(run.written[k])

\* C17, amended: a read-all that the store answers returns the rows of the
\* writes that returned True, each once and as written (title, type,
\* original text, and the other columns), those of earlier writes included,
\* and no other row; a write that returned False adds none.  A read-all
\* whose query raises returns an empty frame.
C17_AnsweredReadReturnsWritten ==
    run.handler = "read"
    => IF run.readable
       THEN /\ Len(run.frame) = Len(run.written)
            /\ \A k \in 1..Len(run.written) :
                 Occurrences(run.written[k], run.frame)
                 = Occurrences(run.written[k], run.written)
       ELSE run.frame = << >>

\* Two writes of different documents returned True, and a read returned
\* both rows, the later one first.
C17_Witness ==
    /\ run.handler = "read"
    /\ run.readable
    /\ Len(run.written) = 2
    /\ Written(run.written[1]) # Written(run.written[2])
    /\ run.written[1].timestamp < run.written[2].timestamp
    /\ run.frame = <<run.written[2], run.written[1]>>

(***************************************************************************)
(* Properties of the heuristic checkers                                    *)
(***************************************************************************)

\* A check of the document typed has returned.
Checked == run.handler = "check"

\* The filler word w occurs in the text as a whole word, in any case: there
\* is a place where its letters stand, with no letter, digit or underscore
\* next to them.
OccursAsWord(cs, w) ==
    \E i \in 1..(Len(cs) - Len(w) + 1) :
        /\ \A j \in 1..Len(w) : LowerChar(cs[i + j - 1]) = w[j]
        /\ i = 1 \/ ~WordChar(cs[i - 1])
        /\ i + Len(w) > Len(cs) \/ ~WordChar(cs[i + Len(w)])

\* An issue of the category Wordiness names the word w: in its suggestion
\* (app.py), in the words it lists (main.py).
NamesFiller(issue, w) ==
    IF entry = "app"
    THEN /\ issue.type = "Wordiness"
         /\ issue.suggestion = <<"Remove unnecessary '", w, "'">>
    ELSE /\ issue.category = "Wordiness"
         /\ \E k \in 1..Len(issue.words) : issue.words[k] = w

\* C18: every filler word that occurs in the text as a whole word, in any
\* case, is named by a Wordiness entry of the issue list; when several
\* occur, each of them is named.
C18_FillerWordsNamed ==
    Checked
    => \A n \in 1..Len(filler_words) :
         OccursAsWord(Typed(run.typed), Chars(filler_words[n]))
         => \E i \in 1..Len(run.issues) :
                NamesFiller(run.issues[i], filler_words[n])

\* A document with Very and Really in upper case, actually before a comma,
\* and every, which only holds a filler word: the three filler words are
\* named, and basically is not.
C18_Witness ==
    /\ Checked
    /\ run.typed = <<"Very ", "every actually, ", "Really. ">>
    /\ \E i \in 1..Len(run.issues) : NamesFiller(run.issues[i], "very")
    /\ \E i \in 1..Len(run.issues) : NamesFiller(run.issues[i], "really")
    /\ \E i \in 1..Len(run.issues) : NamesFiller(run.issues[i], "actually")
    /\ ~ \E i \in 1..Len(run.issues) : NamesFiller(run.issues[i], "basically")

\* The sentences of the text that have more words than the threshold.
LongSentences(cs) ==
    SelectSeq(SplitSentences(cs), LAMBDA s : WordCount(s) > LongSentenceWords)

\* The issue is a Long Sentences entry.
IsLongSentences(issue) ==
    IF entry = "app"
    THEN issue.type = "Long Sentences"
    ELSE issue.category = "Long Sentences"

\* C19, as claimed: with both checkers, the issue list of a text holds a
\* Long Sentences entry exactly when a sentence of the text has more words
\* than the threshold, and the entry states the number of such sentences.
C19_Claimed_LongSentencesBothCheckers ==
    Checked
    => LET n == Len(LongSentences(Typed(run.typed)))
           entries == SelectSeq(run.issues, IsLongSentences)
       IN IF n > 0
          THEN /\ Len(entries) = 1
               /\ entry = "main" => entries[1].count = n
          ELSE Len(entries) = 0

(***************************************************************************)
(* Properties of the chat input                                            *)
(***************************************************************************)

\* A chat input has been answered.
ChatAnswered ==
    /\ run.handler = "chat"
    /\ run.outcome = "done"

\* The kind of the answer, the last message of the session.
AnswerKind == session_state["messages"][Len(session_state["messages"])].kind

\* C20, as claimed: a chat input with a rewrite phrase, in any case, is
\* given to the Technical Writer, any other input to the Chat Assistant, and
\* no other request is made for the input.
C20_Claimed_RoutedByPhraseAlone ==
    ChatAnswered
    => llm_requests = IF IsRewriteRequest(run.input)
                      THEN <<"Technical Writer">>
                      ELSE <<"Chat Assistant">>

\* C20, amended: a chat input is given to the Technical Writer when it has a
\* rewrite phrase, in any case, the text area holds a document and the
\* session holds a review; every other input, one with a rewrite phrase
\* included, is given to the Chat Assistant.  Exactly one of the two makes
\* a request for the input, one request, and its answer or its error is the
\* message added.
C20_RoutedByPhraseDocumentAndReview ==
    ChatAnswered
    => IF IsRewriteRequest(run.input) /\ run.text # "" /\ run.hadReview
       THEN /\ llm_requests = <<"Technical Writer">>
            /\ AnswerKind \in {"improved draft", "rewrite error"}
       ELSE /\ llm_requests = <<"Chat Assistant">>
            /\ AnswerKind \in {"guidance", "chat error"}

\* The input Rewrite, in upper case, with a document and a review at hand,
\* was answered with a draft by the Technical Writer.
C20_Witness ==
    /\ ChatAnswered
    /\ run.input = "Rewrite"
    /\ run.text # ""
    /\ run.hadReview
    /\ llm_requests = <<"Technical Writer">>
    /\ AnswerKind = "improved draft"

(***************************************************************************)
(* Properties of the reports                                               *)
(***************************************************************************)

\* C21: every report a phase-1 agent has returned carries the name of its
\* agent and exactly one of findings and error, and nothing else; a report
\* stays as it was returned while the run goes on, and the synthesis is
\* given the reports as they were returned, in the result that carries the
\* review and in the session of app.py.
C21_ReportsSettledAndKept ==
    /\ [](\A i \in 1..Len(run.reports) :
            /\ run.reports[i].agent = Phase1Agents(entry)[i]
            /\ Settled(run.reports[i])
            /\ DOMAIN run.reports[i] \subseteq {"agent", "findings", "error"})
    /\ []((pc = "synthesized" /\ "review" \in DOMAIN run.editorial)
            => run.editorial.agent_reports = run.reports)
    /\ []((entry = "app" /\ run.handler = "review" /\ run.outcome = "done")
            => session_state["agent_reports"] = run.reports)
    /\ [][(run.reports # << >> /\ run'.reports # << >>)
            => /\ Len(run'.reports) >= Len(run.reports)
               /\ SubSeq(run'.reports, 1, Len(run.reports)) = run.reports]_vars

\* A run of main.py whose Content Analyzer failed and whose two other
\* agents returned findings, at the end of the synthesis.
C21_Witness ==
    /\ entry = "main"
    /\ pc = "synthesized"
    /\ Len(run.reports) = 3
    /\ DOMAIN run.reports[1] = {"agent", "error"}
    /\ DOMAIN run.reports[2] = {"agent", "findings"}
    /\ DOMAIN run.reports[3] = {"agent", "findings"}
    /\ "review" \in DOMAIN run.editorial

(***************************************************************************)
(* Properties of the rows                                                  *)
(***************************************************************************)

\* The options of the Type select box of the entry point.
TypeOptions == {DocTypeList(entry)[i] : i \in 1..Len(DocTypeList(entry))}

\* C22: whatever the user has done, every row of editorial_reviews has an
\* original_text that is not empty and a document_type that is one of the
\* options of the Type select box.
C22_RowsHaveTextAndListedType ==
    \A i \in 1..Len(db) :
        /\ db[i].original_text # ""
        /\ db[i].document_type \in TypeOptions

\* A row written by a Full Review of app.py, for a document of the second
\* type of the list.
C22_Witness ==
    /\ entry = "app"
    /\ Len(db) = 1
    /\ db[1].document_type = "User Guide"
    /\ db[1].original_text = "Intro text."
    /\ run.saved = "yes"

(***************************************************************************)
(* Properties of the scheduling of phase 1                                 *)
(***************************************************************************)

\* The phase-1 task k of the run has begun to execute: gather runs the
\* tasks in order, and run.agent is the one that executes.
TaskStarted(k) == run.handler = "review" /\ run.agent >= k

\* The phase-1 task k of the run has returned its report.
TaskFinished(k) == Len(run.reports) >= k

\* The phase-1 tasks that have begun and have not returned.
TasksInFlight ==
    {k \in 1..Len(Phase1Agents(entry)) : TaskStarted(k) /\ ~TaskFinished(k)}

\* C23, as claimed: a phase-1 task is suspended at its network calls and
\* the next task runs meanwhile: once the first task has gone through its
\* first network call without having returned, the second task has begun,
\* and the two are in flight together.
C23_Claimed_TasksOverlapAtNetworkCalls ==
    (pc = "phase1" /\ run.agent = 1 /\ run.doc > 1)
    => Cardinality(TasksInFlight) >= 2

(***************************************************************************)
(* Properties of the rewrite                                               *)
(***************************************************************************)

\* C24, as claimed: the handler of a review sends no request as the
\* Technical Writer; in both entry points the rewrite waits for a later
\* action of the user.
C24_Claimed_NoRewriteInReview ==
    run.handler = "review" => Requests("Technical Writer") = 0

\* C24, amended: in app.py the handler of a review sends no request as the
\* Technical Writer: the request is sent only by a later chat input, asked
\* while the session held a review.  In main.py the review and the rewrite
\* are one action: the handler sends the Technical Writer's request itself,
\* once, after the Senior Editor's, when the analysis returned a review, and
\* no other action of main.py sends it.
C24_RewriteOutOfBandInAppOnly ==
    Requests("Technical Writer") > 0
    => IF entry = "app"
       THEN /\ run.handler = "chat"
            /\ run.hadReview
            /\ llm_requests = <<"Technical Writer">>
       ELSE /\ run.handler = "review"
            /\ "review" \in DOMAIN run.editorial
            /\ llm_requests = <<"Content Analyzer", "Style Guide Enforcer",
                                "Senior Editor", "Technical Writer">>

\* A review of main.py that has sent the rewrite request in the same action.
C24_Witness ==
    /\ entry = "main"
    /\ run.handler = "review"
    /\ pc = "rewritten"
    /\ Requests("Senior Editor") = 1
    /\ Requests("Technical Writer") = 1

\* C25, as claimed: the text and the review given to the Technical Writer
\* belong to one review run: the text is the document the review was
\* written for, whatever the user did to the text area since.
C25_Claimed_RewriteOfReviewedDocument ==
    run.given # EmptyDict
    => IF entry = "app"
       THEN /\ run.given.guidance = session_state["last_review"]
            /\ run.given.original_text = session_state["last_document"]
       ELSE /\ run.given.guidance = run.editorial.review
            /\ run.given.original_text = run.text

(***************************************************************************)
(* Properties of the creation of rows                                      *)
(***************************************************************************)

C27_Claimed_BothEntryPointsHalt ==
    ~client
    => /\ pc \in {"rerun", "halted"}
       /\ run.handler = "none"
       /\ llm_requests = << >>

\* C27, amended: without an API key app.py halts at its start, before any
\* widget is drawn: no handler runs and the session stays empty.  main.py
\* does not halt: it draws the form and waits for the user, and the review
\* button answers with an error without calling the analysis.  In neither
\* entry point is a language-model request sent, a reference document
\* fetched or a row written.
C27_NoRequestWithoutCredential ==
    ~client
    => /\ llm_requests = << >>
       /\ DOCS_CACHE = EmptyDict
       /\ lastFetch = NoFetch
       /\ db = << >>
       /\ IF entry = "app"
          THEN /\ pc \in {"rerun", "halted"}
               /\ run.handler = "none"
               /\ session_state = EmptyDict
          ELSE /\ pc \in {"rerun", "idle"}
               /\ run.outcome \in {"none", "refused"}

\* main.py without an API key has drawn its form, and the review button has
\* been pressed on a document and has been refused.
C27_Witness ==
    /\ ~client
    /\ entry = "main"
    /\ pc = "idle"
    /\ document_text # ""
    /\ run.handler = "review"
    /\ run.outcome = "refused"

(***************************************************************************)
(* Properties of the language-model requests                               *)
(***************************************************************************)

\* The agents that call the language model.
AllAgents ==
    {"Content Analyzer", "Style Guide Enforcer", "Senior Editor",
     "Technical Writer", "Chat Assistant"}

\* The step sends a request as the agent and the agent's result, its
\* answer or its error, is there when the step ends.
AnsweredAtOnce(agent) ==
    CASE agent \in LlmAgents ->
            /\ Len(run'.reports) = Len(run.reports) + 1
            /\ run'.reports[Len(run'.reports)].agent = agent
            /\ Settled(run'.reports[Len(run'.reports)])
      [] agent = "Senior Editor" ->
            ("review" \in DOMAIN run'.editorial) # ("error" \in DOMAIN run'.editorial)
      [] agent = "Technical Writer" ->
            run'.rewrite \in LlmOutcomes("Technical Writer")
      [] agent = "Chat Assistant" ->
            /\ Len(session_state'["messages"]) = Len(session_state["messages"]) + 1
            /\ session_state'["messages"][Len(session_state'["messages"])].kind
                  \in {"guidance", "chat error"}

\* C28: no request is sent again: a handler sends one request at most as
\* each agent, a step that sends a request ends with the agent's answer or
\* its error as the agent's result, and a review that has run to its
\* synthesis has sent one request as each of its phase-1 language-model
\* agents and then one as the Senior Editor.
C28_NoRequestRetried ==
    /\ [](\A agent \in AllAgents : Requests(agent) <= 1)
    /\ []((run.handler = "review" /\ pc \in {"synthesized", "rewrite"})
            => llm_requests = <<"Content Analyzer", "Style Guide Enforcer",
                                "Senior Editor">>)
    /\ [][llm_requests' # llm_requests /\ llm_requests' # << >>
            => /\ Len(llm_requests') = Len(llm_requests) + 1
               /\ SubSeq(llm_requests', 1, Len(llm_requests)) = llm_requests
               /\ AnsweredAtOnce(llm_requests'[Len(llm_requests')])]_vars

\* A Full Review in which the request of the Content Analyzer and that of
\* the Senior Editor failed: three requests, and the error shown.
C28_Witness ==
    /\ entry = "app"
    /\ run.handler = "review"
    /\ run.outcome = "error shown"
    /\ llm_requests = <<"Content Analyzer", "Style Guide Enforcer", "Senior Editor">>
    /\ "error" \in DOMAIN run.reports[1]
    /\ "findings" \in DOMAIN run.reports[2]

(***************************************************************************)
(* Properties of the content of the documentation cache                    *)
(***************************************************************************)

\* The step writes the entry of k, or writes it anew.
EntryWritten(k) ==
    /\ k \in DOMAIN DOCS_CACHE'
    /\ k \in DOMAIN DOCS_CACHE => DOCS_CACHE'[k] # DOCS_CACHE[k]

\* C29: the keys of the cache are keys of DOCUMENTATION_URLS and each entry
\* holds a body that a GET answered with; an entry is written only by a call
\* for its own key whose GET succeeded, and holds the body and the time of
\* that call; entries leave the cache only all together, and a call for a
\* known key that finds the cache empty issues a GET.
C29_CacheHoldsSuccessfulFetches ==
    /\ [](/\ DOMAIN DOCS_CACHE \subseteq DOCUMENTATION_URLS
          /\ \A k \in DOMAIN DOCS_CACHE : DOCS_CACHE[k].content \in Contents)
    /\ [][\A k \in CallKeys \cup DOCUMENTATION_URLS :
            EntryWritten(k)
            => /\ lastFetch'.key = k
               /\ lastFetch'.gets = 1
               /\ lastFetch'.response \in Contents
               /\ lastFetch'.ret = lastFetch'.response
               /\ DOCS_CACHE'[k] = [content |-> lastFetch'.response,
                                    timestamp |-> now]]_vars
    /\ [][(DOMAIN DOCS_CACHE \ DOMAIN DOCS_CACHE' # {})
            => DOCS_CACHE' = EmptyDict]_vars
    /\ [][\A k \in DOCUMENTATION_URLS :
            (DOCS_CACHE = EmptyDict /\ FetchStep(k))
            => lastFetch'.gets = 1]_vars

\* The cache cleared after a call for "style_guide" that succeeded at clock
\* value 1801.
C29_Witness ==
    /\ DOCS_CACHE = EmptyDict
    /\ lastFetch.key = "style_guide"
    /\ lastFetch.ret = "docB"
    /\ lastFetch.at = 1801

(***************************************************************************)
(* Properties of the session keys of a review (app.py)                     *)
(***************************************************************************)

ReviewKeys == {"last_review", "last_document", "agent_reports"}

\* What the session holds under the three keys.
Kept(ss) == [k \in ReviewKeys \cap DOMAIN ss |-> ss[k]]

\* The step is the end of a Full Review of app.py.
ReviewEnds == entry = "app" /\ pc = "synthesized" /\ pc' # "synthesized"

\* The step is New Session.
SessionEnds == entry = "app" /\ pc = "idle" /\ pc' = "rerun" /\ run' = run

\* C30: in app.py the session holds 'last_review', 'last_document' and
\* 'agent_reports' all three or none; they change only at the end of a
\* review whose synthesis succeeded, which writes the three from that run,
\* and at New Session, which removes the three; a review that fails leaves
\* them as they were; and while they are absent a chat input is never routed
\* to the Rewrite Agent.
C30_ReviewKeysTogether ==
    /\ [](entry = "app"
            => (ReviewKeys \cap DOMAIN session_state) \in {{}, ReviewKeys})
    /\ [][(entry = "app" /\ Kept(session_state') # Kept(session_state))
            => \/ /\ ReviewEnds
                  /\ "review" \in DOMAIN run.editorial
               \/ SessionEnds]_vars
    /\ [][(ReviewEnds /\ "review" \in DOMAIN run.editorial)
            => Kept(session_state') =
                  [last_review |-> run.editorial.review,
                   last_document |-> run.text,
                   agent_reports |-> run.reports]]_vars
    /\ [][(ReviewEnds /\ "review" \notin DOMAIN run.editorial)
            => Kept(session_state') = Kept(session_state)]_vars
    /\ [][SessionEnds => ReviewKeys \cap DOMAIN session_state' = {}]_vars
    /\ [][(/\ entry = "app"
           /\ pc = "idle"
           /\ run'.handler = "chat"
           /\ run'.outcome = "running"
           /\ ReviewKeys \cap DOMAIN session_state = {})
            => pc' = "chat"]_vars

\* A second Full Review, of an edited document, has failed, and the session
\* still holds the review, the document and the reports of the first.
C30_Witness ==
    /\ entry = "app"
    /\ run.handler = "review"
    /\ run.outcome = "error shown"
    /\ ReviewKeys \subseteq DOMAIN session_state
    /\ session_state["last_document"] # run.text

====
